---- MODULE Spec2Model ----
(***************************************************************************)
(* Canadian Trail: the deterministic simulation core (seeded RNG, save and *)
(* resume, day resolution, weather, status conditions, events, hazards).   *)
(*                                                                         *)
(* Numbers.  A 32-bit word is a pair <<hi, lo>> of 16-bit halves, so that  *)
(* no intermediate value leaves the range of the model checker's integers. *)
(* A draw rng.next() = u / 2^32 is kept as its numerator u (a word).       *)
(* Multipliers (speedMult, hungerMult) are in hundredths, money in cents,  *)
(* miles and rations in halves.                                            *)
(***************************************************************************)
EXTENDS Integers, Sequences, FiniteSets, TLC

\* ------------------------------------------------------------------------
\* 32-bit words
\* ------------------------------------------------------------------------
H16 == 65536

Word(hi, lo) == <<hi, lo>>

Hi(w) == w[1]

Lo(w) == w[2]

RECURSIVE Xor16(_, _, _)
\* bitwise exclusive or of two values below 2^n
Xor16(a, b, n) ==
  IF n = 0 THEN 0
  ELSE ((a + b) % 2) + 2 * Xor16(a \div 2, b \div 2, n - 1)

\* a ^ b on words
WXor(a, b) == Word(Xor16(Hi(a), Hi(b), 16), Xor16(Lo(a), Lo(b), 16))

\* (a + b) >>> 0
WAdd(a, b) ==
  LET lo == Lo(a) + Lo(b)
  IN  Word((Hi(a) + Hi(b) + (lo \div H16)) % H16, lo % H16)

Pow2(k) == 2 ^ k

\* a >>> k for 0 < k < 16
WShr(a, k) ==
  Word(Hi(a) \div Pow2(k),
       (Hi(a) % Pow2(k)) * Pow2(16 - k) + Lo(a) \div Pow2(k))

\* x * y mod 2^16 for x, y below 2^16
MulMod16(x, y) == ((x % 256) * y + (((x \div 256) * y) % 256) * 256) % H16

\* the word of a product from the products p0 and q of the low bytes of a
\* with the low half of b, and the sum of the cross terms
WMulOf(p0, q, cross) ==
  Word(((p0 \div H16) + (q \div 256) + (((p0 % H16) + (q % 256) * 256) \div H16) + cross) % H16,
       ((p0 % H16) + (q % 256) * 256) % H16)

\* Math.imul(a, b) as an unsigned word
WMul(a, b) ==
  WMulOf((Lo(a) % 256) * Lo(b), (Lo(a) \div 256) * Lo(b),
         MulMod16(Hi(a), Lo(b)) + MulMod16(Lo(a), Hi(b)))

\* t | 1
WOr1(a) == Word(Hi(a), Lo(a) + (1 - (Lo(a) % 2)))

\* t | 61  (61 = 111101b: only bit 1 of the low six bits is left to t)
WOr61(a) == Word(Hi(a), (Lo(a) \div 64) * 64 + 61 + 2 * ((Lo(a) \div 2) % 2))

WZero == Word(0, 0)

WOne == Word(0, 1)

\* ------------------------------------------------------------------------
\* RNG (Mulberry32)
\* ------------------------------------------------------------------------
\* 0x6D2B79F5
Golden == Word(27947, 31221)

\* (seed >>> 0) || 1
RNGCtor(seed) == IF seed = WZero THEN WOne ELSE seed

\* the state after one next()
RNGAdvance(s) == WAdd(s, Golden)

\* t ^ (t >>> 14)
Mix3(t) == WXor(t, WShr(t, 14))

\* t ^= t + Math.imul(t ^ (t >>> 7), t | 61), then the last step
Mix2(t) == Mix3(WXor(t, WAdd(t, WMul(WXor(t, WShr(t, 7)), WOr61(t)))))

\* the numerator of the value next() returns, from the advanced state
RNGOutput(s) == Mix2(WMul(WXor(s, WShr(s, 15)), WOr1(s)))

\* Math.floor(u / 2^32 * max) for a small integer max
ScaleInt(u, max) == (Hi(u) * max + (Lo(u) * max) \div H16) \div H16

\* u / 2^32 < num / den
DrawLt(u, num, den) == Hi(u) * den + (Lo(u) * den) \div H16 < num * H16

\* u / 2^32 * total <= acc  (integer total, acc)
DrawScaledLe(u, total, acc) ==
  LET x == Hi(u) * total + (Lo(u) * total) \div H16
  IN  \/ x < acc * H16
      \/ x = acc * H16 /\ (Lo(u) * total) % H16 = 0

\* ------------------------------------------------------------------------
\* RNG instances as objects: a heap from instance name to this.state
\* ------------------------------------------------------------------------
VARIABLES
  insts,   \* RNG instances under test: name -> this.state
  outs,    \* the value each instance returned from its last call
  seed0,   \* the seed both were constructed with
  calls    \* number of calls made on each instance

rngVars == <<insts, outs, seed0, calls>>

\* next() with the state kept in one slot shared by all instances
RNG_next_shared(h, self) ==
  LET s == RNGAdvance(h["a"])
  IN  [h |-> [i \in DOMAIN h |-> s], v |-> RNGOutput(s)]

\* RNG.next() on instance self: the heap after, and the value returned
RNG_next(h, self) ==
  LET s == RNGAdvance(h[self])
  IN  [h |-> [h EXCEPT ![self] = s], v |-> RNGOutput(s)]

\* RNG.nextInt(max) on instance self
RNG_nextInt(h, self, max) ==
  LET r == RNG_next(h, self)
  IN  [h |-> r.h, v |-> ScaleInt(r.v, max)]

\* seeds the instances are constructed with: 0, 1, 42, 123456789 (the test's),
\* 0x92D4860B (whose first advance gives state 0) and 0xFFFFFFFF
Seeds == { Word(0, 0), Word(0, 1), Word(0, 42), Word(1883, 52501),
           Word(37588, 34315), Word(65535, 65535) }

\* arguments of nextInt
IntMaxes == {1, 3, 4, 6}

\* bound: calls made on each instance
MaxCalls == 5

NoOut == [kind |-> "none", v |-> 0]

\* ------------------------------------------------------------------------
\* The game session (state/GameState.js)
\* ------------------------------------------------------------------------
VARIABLES
  rng,      \* game.rng.state
  data,     \* game.data, the persistent document
  storage,  \* the item under SAVE_KEY: a saved document, or what else is there
  tasks,    \* async calls in flight, in the order they run
  cat,      \* module-level catalog caches and their load promises
  session,  \* the event session being resolved, or "none"
  seen,     \* what the document has been through (history of rolls and ticks)
  twin,     \* a second GameState, in a process of its own (all of the above)
  last      \* what the operation that completed last returned and observed

gameVars == <<rng, data, storage, tasks, cat, session, seen, twin, last>>

\* the modules around the session, each taken on its own further down
VARIABLES
  loader,   \* the catalog modules: cached tables, load promises, calls waiting
  hunt      \* the hunting session of systems/hunting.js, and what it returned

vars == <<insts, outs, seed0, calls, rng, data, storage, tasks, cat, session, seen, twin,
          last, loader, hunt>>

\* no hunting session has been created
NoHunt == [opened |-> FALSE]

\* neither has been touched
Offstage == loader = "unused" /\ hunt = NoHunt

None == "none"

\* ids of the status conditions of the catalogs
CondIds == {"fallback_hockey_blues", "poutine_coma", "maple_fever", "toque_itch"}

\* history[id]?.lastEndDay ?? -9999
NeverEnded == -9999

Items == {"food", "bullets", "clothes", "wheel", "axle", "tongue", "medicine"}

Member(id, role) == [id |-> id, role |-> role, health |-> 5, status |-> "well"]

\* the party startNewGame creates
NewParty ==
  << Member("merri-ellen", "mom"), Member("mike", "dad"), Member("ros", "child"),
     Member("jess", "child"), Member("martha", "child"), Member("rusty", "infant") >>

\* weather.today when it is null: a record of no pattern
NoRecord ==
  [day |-> 0, id |-> None,
   mods |-> [speedMult |-> 100, healthDelta |-> 0, hungerMult |-> 100]]

NoWeather == [lastRolledDay |-> 0, today |-> NoRecord]

NoStatus == [conditions |-> <<>>, history |-> [id \in CondIds |-> NeverEnded]]

\* a landmarks.json as authored; badness in hundredths, miles in half miles
Landmarks ==
  << [id |-> "gumbo_flats", mile |-> 60, hazard |-> [kind |-> "mud", badness |-> 60]] >>

\* landmarks with a hazard of every kind, and one of a kind the resolver
\* does not know.  River depth and snow drift are in tenths of a foot, river
\* width and beaver gap in feet, flock in geese
Crossings ==
  << [id |-> "red_river", mile |-> 200,
      hazard |-> [kind |-> "river", depthFt |-> 35, widthFt |-> 250, current |-> "fast"]],
     [id |-> "elbow_creek", mile |-> 260,
      hazard |-> [kind |-> "river", depthFt |-> 5, widthFt |-> 80, current |-> "slow"]],
     [id |-> "dust_road", mile |-> 300, hazard |-> [kind |-> "mud", badness |-> 10]],
     [id |-> "snow_pass", mile |-> 400, hazard |-> [kind |-> "snow", driftFt |-> 12]],
     [id |-> "goose_lake", mile |-> 500, hazard |-> [kind |-> "geese", flock |-> 160]],
     [id |-> "beaver_dam", mile |-> 600, hazard |-> [kind |-> "beaver", gapFt |-> 3]],
     [id |-> "moose_crossing", mile |-> 700, hazard |-> [kind |-> "moose"]] >>

LandmarkIds ==
  {Landmarks[k].id : k \in 1 .. Len(Landmarks)} \cup {Crossings[k].id : k \in 1 .. Len(Crossings)}

\* the hazard object of each landmark, as loadLandmarks() parsed it
AuthoredHazards ==
  [id \in LandmarkIds |->
     LET both == Landmarks \o Crossings
     IN  both[CHOOSE k \in 1 .. Len(both) : both[k].id = id].hazard]

\* data.flags: the event cooldown, the landmark the party is parked at,
\* the stored hazard states (kind "none" where none is stored yet), and the
\* keys set by mapFlag effects, and the day of the last hunt (0 before any)
NoFlags == [evtCooldownDays |-> 0, atLandmarkId |-> None,
            hazardState |-> [id \in LandmarkIds |-> [kind |-> None]],
            marks |-> {}, lastHuntDay |-> 0]

\* this.data as the GameState constructor leaves it
CtorData ==
  [ rngSeed |-> WOne, rngState |-> WOne, day |-> 1, party |-> <<>>,
    inventory |-> [food |-> 100, bullets |-> 20, clothes |-> 4, wheel |-> 1,
                   axle |-> 1, tongue |-> 0, medicine |-> 2],
    money |-> 5000, morale |-> 0, miles |-> 0,
    pace |-> "steady", rations |-> "normal",
    flags |-> NoFlags, weather |-> NoWeather, status |-> NoStatus, log |-> 0 ]

\* this.data as startNewGame(seed) sets it, before its save()
NewGameData(seed) ==
  [ CtorData EXCEPT
      !.rngSeed = seed, !.rngState = seed, !.party = NewParty,
      !.inventory = [food |-> 100, bullets |-> 30, clothes |-> 5, wheel |-> 1,
                     axle |-> 1, tongue |-> 0, medicine |-> 2],
      !.log = 1 ]

\* the session as one value, for the operations to work on
Game == [rng |-> rng, data |-> data, storage |-> storage, tasks |-> tasks,
         cat |-> cat, session |-> session, seen |-> seen, last |-> last]

Becomes(g) ==
  /\ rng' = g.rng
  /\ data' = g.data
  /\ storage' = g.storage
  /\ tasks' = g.tasks
  /\ cat' = g.cat
  /\ session' = g.session
  /\ seen' = g.seen
  /\ last' = g.last

\* save() that writes the document without syncing data.rngState first
SaveStale(g) == [g EXCEPT !.storage = g.data]

\* GameState.save(): sync the RNG state into the document, then persist it
Save(g) ==
  LET d == [g.data EXCEPT !.rngState = g.rng]
  IN  [g EXCEPT !.data = d, !.storage = d]

\* a || b || 1 on numbers: 0 is falsy
OrElse(a, b) == IF a # WZero THEN a ELSE IF b # WZero THEN b ELSE WOne

\* GameState.continueGame() with a save present: this.data, this.rng
ContinueGame(g) ==
  [g EXCEPT !.data = g.storage,
            !.rng = RNGCtor(OrElse(g.storage.rngState, g.storage.rngSeed))]

\* continueGame that builds the generator before it reads the save
ContinueGameCall_Eager(g) ==
  LET told(threw) == [op |-> "continueGame", threw |-> threw, storageBefore |-> g.storage,
                      was |-> [rngBefore |-> g.rng, dataBefore |-> g.data]]
  IN  IF "raw" \in DOMAIN g.storage
      THEN [g EXCEPT !.rng = RNGCtor(OrElse(g.data.rngState, g.data.rngSeed)),
                     !.last = told(TRUE)]
      ELSE [ContinueGame(g) EXCEPT !.last = told(FALSE)]

\* GameState.continueGame(): it throws 'No saved game found.' when there is
\* no item or an empty one, JSON.parse throws on text that is not JSON, and
\* it throws 'Corrupt save.' when the JSON is not an object; this.data and
\* this.rng are assigned after that
ContinueGameCall(g) ==
  LET told(threw) == [op |-> "continueGame", threw |-> threw, storageBefore |-> g.storage,
                      was |-> [rngBefore |-> g.rng, dataBefore |-> g.data]]
  IN  IF "raw" \in DOMAIN g.storage
      THEN [g EXCEPT !.last = told(TRUE)]
      ELSE [ContinueGame(g) EXCEPT !.last = told(FALSE)]

\* GameState.startNewGame(seed) on a fresh GameState
StartNewGame(g, seed) ==
  Save([g EXCEPT !.data = NewGameData(seed), !.rng = RNGCtor(seed)])

\* no event session open
NoSession == [open |-> FALSE, event |-> 0, stageId |-> None, child |-> 0, notes |-> 0]

\* caches as a fresh process has them: nothing requested yet; diseases is
\* the diseases.json the server holds.  landmarks is the hazard object of
\* each landmark the screens hold, and aliased the landmarks whose stored
\* hazard state is that very object
NoCatalogs == [weather |-> "idle", status |-> "idle", events |-> "idle",
               diseases |-> "authored", landmarks |-> AuthoredHazards, aliased |-> {}]

NoLast == [op |-> None]

\* what this document has been through: the days rolled, with the record
\* the first roll of each stored, the days the status lifecycle processed,
\* and how many calls of maybeTriggerEvent have returned null since the last
\* one that returned a session (-1 before the first session); click is the
\* travel click of the travel screen that is under way: the await its
\* handler is suspended on and the landmarks it found crossed
NoClick == [pc |-> "none", crossed |-> {}]

NoneSeen == [rolled |-> {}, ticked |-> {}, quiet |-> -1, click |-> NoClick]

\* an item under SAVE_KEY that is no saved document: "missing" for no item,
\* "empty" for the empty string, "garbled" for text that is not JSON, "scalar"
\* for JSON that is not an object
SaveFile(raw) == [raw |-> raw]

NoSave == SaveFile("missing")

\* a constructed GameState: new GameState({storage}) over an empty store
CtorGame ==
  [rng |-> WOne, data |-> CtorData, storage |-> NoSave, tasks |-> <<>>,
   cat |-> NoCatalogs, session |-> NoSession, seen |-> NoneSeen, last |-> NoLast]

GameIdle ==
  /\ rng = CtorGame.rng
  /\ data = CtorGame.data
  /\ storage = CtorGame.storage
  /\ tasks = CtorGame.tasks
  /\ cat = CtorGame.cat
  /\ session = CtorGame.session
  /\ seen = CtorGame.seen
  /\ twin = CtorGame
  /\ last = CtorGame.last

\* ------------------------------------------------------------------------
\* Draws from game.rng
\* ------------------------------------------------------------------------
\* the session at generator state s and the numerator drawn there
DrawnAt(g, s) == [g |-> [g EXCEPT !.rng = s], u |-> RNGOutput(s)]

\* game.rng.next(): the session after the draw, and the numerator drawn
Draw(g) == DrawnAt(g, RNGAdvance(g.rng))

RECURSIVE SumWeights(_, _)
SumWeights(ws, i) == IF i > Len(ws) THEN 0 ELSE ws[i] + SumWeights(ws, i + 1)

RECURSIVE FirstReaching(_, _, _, _, _)
\* index of the first weight whose running sum acc satisfies r <= acc, where
\* r = u / 2^32 * total; the last index when none does
FirstReaching(ws, u, total, i, acc) ==
  IF i >= Len(ws) THEN Len(ws)
  ELSE IF DrawScaledLe(u, total, acc + ws[i]) THEN i
       ELSE FirstReaching(ws, u, total, i + 1, acc + ws[i])

\* weightedPick of weather.js and status.js on the weights ws, given the draw
PickIndex(ws, u) == FirstReaching(ws, u, SumWeights(ws, 1), 1, 0)

Max(a, b) == IF a >= b THEN a ELSE b

Min(a, b) == IF a <= b THEN a ELSE b

Clamp(v, lo, hi) == Max(lo, Min(hi, v))

\* Math.round(n / d) for d > 0: halves go up
RoundDiv(n, d) == (2 * n + d) \div (2 * d)

\* ------------------------------------------------------------------------
\* Weather (systems/weather.js)
\* ------------------------------------------------------------------------
Pattern(id, weight, speed, health, hunger) ==
  [id |-> id, weight |-> weight,
   mods |-> [speedMult |-> speed, healthDelta |-> health, hungerMult |-> hunger]]

\* the built-in table used when weather.json cannot be loaded
FALLBACK ==
  << Pattern("nice_day", 4, 110, 0, 100),
     Pattern("whiteout_eh", 2, 65, -1, 105),
     Pattern("geese_headwind", 3, 80, 0, 100) >>

\* a weather.json as authored: fair days, a warm spell, and a road closure
\* that all but stops the wagon
AuthoredPatterns ==
  << Pattern("fair", 2, 100, 0, 100),
     Pattern("chinook", 1, 120, 1, 90),
     Pattern("road_closed", 2, 2, -1, 110) >>

\* _patterns once the load promise has settled
Patterns(c) == IF c.weather = "fallback" THEN FALLBACK ELSE AuthoredPatterns

\* the load promise has settled: a table is in place, or the fetch failed
Loaded(st) == st \in {"ok", "fallback", "failed"}

\* ensureLoaded(): the first caller starts the fetch, later ones share it
EnsureLoaded(c, which) ==
  IF c[which] = "idle" THEN [c EXCEPT ![which] = "loading"] ELSE c

\* rollForDay: one weighted pick, stored under the day, and one log line
RollFresh(g, dayNumber) ==
  LET ps == Patterns(g.cat)
      stored(g1, p) ==
        [g |-> [g1 EXCEPT !.data.weather =
                            [lastRolledDay |-> dayNumber,
                             today |-> [day |-> dayNumber, id |-> p.id, mods |-> p.mods]],
                          !.data.log = @ + 1],
         ret |-> [day |-> dayNumber, id |-> p.id, mods |-> p.mods]]
      drawn(d) == stored(d.g, ps[PickIndex([i \in 1 .. Len(ps) |-> ps[i].weight], d.u)])
  IN  drawn(Draw(g))

\* rollForDay that ignores the cached record of the day
RollForDayBody_NoCache(g, dayNumber) == RollFresh(g, dayNumber)

\* rollForDay(game, dayNumber) after its await: the session and the record
RollForDayBody(g, dayNumber) ==
  LET gw == g.data.weather
  IN  IF gw.lastRolledDay = dayNumber /\ gw.today.id # None
      THEN [g |-> g, ret |-> gw.today]
      ELSE RollFresh(g, dayNumber)

DefaultMods == [speedMult |-> 100, healthDelta |-> 0, hungerMult |-> 100]

\* getModifiersForToday(game)
GetModifiersForToday(g) ==
  IF g.data.weather.today.id = None THEN DefaultMods ELSE g.data.weather.today.mods

\* ------------------------------------------------------------------------
\* Status conditions (systems/status.js)
\* ------------------------------------------------------------------------
Condition(id, weight, dMin, dMax, speed, hunger, chance, minDay, cooldown) ==
  [id |-> id, weight |-> weight, dMin |-> dMin, dMax |-> dMax,
   effects |-> [speedMult |-> speed, hungerMult |-> hunger, healthChance |-> chance],
   minDay |-> minDay, cooldownDays |-> cooldown]

\* the built-in config used when diseases.json cannot be loaded
FallbackConfig ==
  [maxConcurrent |-> 2, chanceNum |-> 20,
   conditions |-> << Condition("fallback_hockey_blues", 1, 2, 3, 97, 100, 5, 1, 5) >>]

\* a diseases.json as authored
AuthoredConfig ==
  [maxConcurrent |-> 2, chanceNum |-> 60,
   conditions |-> << Condition("poutine_coma", 2, 1, 2, 90, 110, 50, 1, 2),
                     Condition("maple_fever", 1, 2, 3, 100, 120, 0, 2, 0) >>]

\* another diseases.json: more conditions than may be active at once, two
\* that last for days and one that passes in a day and then has a cooldown
CrowdedConfig ==
  [maxConcurrent |-> 2, chanceNum |-> 90,
   conditions |-> << Condition("poutine_coma", 2, 3, 4, 90, 110, 0, 1, 0),
                     Condition("maple_fever", 1, 3, 4, 100, 120, 0, 1, 0),
                     Condition("toque_itch", 2, 1, 1, 100, 100, 0, 2, 3) >>]

\* _config once the load promise has settled
Config(c) ==
  IF c.status = "fallback" THEN FallbackConfig
  ELSE IF c.diseases = "crowded" THEN CrowdedConfig ELSE AuthoredConfig

RECURSIVE SelectSeq2(_, _, _)
\* the subsequence of s whose elements are in the set keep
SelectSeq2(s, keep, i) ==
  IF i > Len(s) THEN <<>>
  ELSE (IF s[i] \in keep THEN <<s[i]>> ELSE <<>>) \o SelectSeq2(s, keep, i + 1)

\* the ids of the active conditions, with those in force forgotten
ActiveIds_Forgotten(conds) == {}

ActiveIds(conds) == {conds[i].id : i \in 1 .. Len(conds)}

\* an expiry pass that leaves every counter where it was
Decremented_Stuck(conds) == conds

\* tickAndMaybeAcquire, "Expire counters": every daysRemaining minus one
Decremented(conds) ==
  [i \in 1 .. Len(conds) |->
     [conds[i] EXCEPT !.daysRemaining = Max(0, conds[i].daysRemaining - 1)]]

\* the acquire branch once the chance roll has succeeded
Acquire(g, today) ==
  LET cfg  == Config(g.cat)
      st   == g.data.status
      ok(c) == /\ today >= Max(0, c.minDay)
               /\ today - st.history[c.id] >= Max(0, c.cooldownDays)
               /\ c.id \notin ActiveIds(st.conditions)
      added(g2, pick, dur) ==
        [g2 EXCEPT !.data.status.conditions =
                     Append(@, [id |-> pick.id, daysRemaining |-> dur,
                                effects |-> pick.effects]),
                   !.data.log = @ + 1]
      timed(d2, pick) ==
        added(d2.g, pick,
              Max(1, Min(pick.dMin, pick.dMax)
                     + ScaleInt(d2.u, Max(pick.dMin, pick.dMax) - Min(pick.dMin, pick.dMax) + 1)))
      picked(g1, pick) == timed(Draw(g1), pick)
      among(elig, ws) ==
        LET chosen(d1) == picked(d1.g, elig[PickIndex(ws, d1.u)])
        IN  IF SumWeights(ws, 1) <= 0 THEN g ELSE chosen(Draw(g))
      weighed(elig) == among(elig, [i \in 1 .. Len(elig) |-> Max(0, elig[i].weight)])
  IN  weighed(SelectSeq2(cfg.conditions,
                         {c \in {cfg.conditions[i] : i \in 1 .. Len(cfg.conditions)} : ok(c)}, 1))

\* tickAndMaybeAcquire(game) after its await
TickBody(g) ==
  LET today == g.data.day
      cfg   == Config(g.cat)
      stamped(g2, after) ==
        [g2 EXCEPT !.data.status.history =
           [id \in CondIds |-> IF id \in after THEN today ELSE @[id]]]
      tried(d) == IF DrawLt(d.u, cfg.chanceNum, 100) THEN Acquire(d.g, today) ELSE d.g
      acquired(g1) ==
        IF Len(g1.data.status.conditions) < cfg.maxConcurrent THEN tried(Draw(g1)) ELSE g1
      expired(dec, kept) ==
        stamped(acquired([g EXCEPT !.data.status.conditions = kept,
                                   !.data.log = @ + Len(dec) - Len(kept)]),
                {dec[i].id : i \in {j \in 1 .. Len(dec) : dec[j].daysRemaining <= 0}})
      ticked(dec) ==
        expired(dec, SelectSeq2(dec, {c \in {dec[i] : i \in 1 .. Len(dec)} : c.daysRemaining > 0}, 1))
  IN  ticked(Decremented(g.data.status.conditions))

RECURSIVE HealthRolls(_, _, _)
\* getAggregatedModifiers, the per-condition health rolls: the session after
\* the draws and the healthDelta they add up to
HealthRolls(g, conds, i) ==
  IF i > Len(conds) THEN [g |-> g, healthDelta |-> 0]
  ELSE LET p == Clamp(conds[i].effects.healthChance, 0, 100)
           less(r, hit) == [g |-> r.g, healthDelta |-> r.healthDelta - hit]
           rolled(d) == less(HealthRolls(d.g, conds, i + 1),
                             IF DrawLt(d.u, p, 100) THEN 1 ELSE 0)
       IN  IF p > 0 THEN rolled(Draw(g)) ELSE HealthRolls(g, conds, i + 1)

RECURSIVE ProductOf(_, _, _)
ProductOf(conds, field, i) ==
  IF i > Len(conds) THEN 1 ELSE conds[i].effects[field] * ProductOf(conds, field, i + 1)

\* 100 ^ n: the scale of a product of n multipliers given in hundredths
RECURSIVE Scale100(_)
Scale100(n) == IF n = 0 THEN 1 ELSE 100 * Scale100(n - 1)

\* getAggregatedModifiers(game): speedMult and hungerMult as fractions
\* num / den, healthDelta, and the session after the health rolls
GetAggregatedModifiers(g) ==
  LET conds == g.data.status.conditions
      with(r) ==
        [g |-> r.g, healthDelta |-> r.healthDelta,
         speedNum |-> ProductOf(conds, "speedMult", 1),
         hungerNum |-> ProductOf(conds, "hungerMult", 1),
         den |-> Scale100(Len(conds))]
  IN  with(HealthRolls(g, conds, 1))

\* ------------------------------------------------------------------------
\* Day resolution (systems/travel.js)
\* ------------------------------------------------------------------------
\* base steady miles per day
BASE_MPD == 15

\* paceMultiplier(pace), in hundredths
PaceMultiplier(pace) ==
  CASE pace = "strenuous" -> 120 [] pace = "grueling" -> 135 [] OTHER -> 100

PaceHealthDelta(pace) ==
  CASE pace = "strenuous" -> -1 [] pace = "grueling" -> -2 [] OTHER -> 0

\* pounds of food per person per day, in half pounds
RATIONS_LB(rations) ==
  CASE rations = "meager" -> 3 [] rations = "generous" -> 5 [] OTHER -> 4

CountAlive(g) ==
  Cardinality({i \in DOMAIN g.data.party : g.data.party[i].status # "dead"})

\* consumeFood that eats what is needed whether or not the wagon holds it
ConsumeFood_Uncapped(g, pounds) ==
  [g |-> [g EXCEPT !.data.inventory.food = Max(0, @ - Max(0, pounds))],
   consumed |-> Max(0, pounds), shortage |-> 0]

\* consumeFood(game, pounds); pounds arrives rounded
ConsumeFood(g, pounds) ==
  LET eaten(before, consumed, need) ==
        [g |-> [g EXCEPT !.data.inventory.food = Max(0, before - consumed)],
         consumed |-> consumed, shortage |-> Max(0, need - consumed)]
      from(before, need) == eaten(before, Min(before, need), need)
  IN  from(g.data.inventory.food, Max(0, pounds))

\* applyHealthToParty that does not pass over the dead
ApplyHealthToParty_All(g, delta) ==
  LET at(m, h) == [m EXCEPT !.health = h, !.status = IF h = 0 THEN "dead" ELSE @]
  IN  [g EXCEPT !.data.party = [i \in DOMAIN @ |-> at(@[i], Clamp(@[i].health + delta, 0, 5))]]

\* applyHealthToParty(game, delta): the living drift, and die at 0
ApplyHealthToParty(g, delta) ==
  LET at(m, h) == [m EXCEPT !.health = h, !.status = IF h = 0 THEN "dead" ELSE @]
      moved(m) == IF m.status = "dead" THEN m ELSE at(m, Clamp(m.health + delta, 0, 5))
  IN  [g EXCEPT !.data.party = [i \in DOMAIN @ |-> moved(@[i])]]

\* x || 1 on a multiplier num / den: 0 counts as 1
OrOne(num, den) == IF num = 0 THEN den ELSE num

\* w and s of a day resolution: the session after the status health rolls,
\* speed and appetite multipliers as num / den, and the overlay healthDelta
Overlays(g) ==
  LET both(w, s) ==
        [g |-> s.g,
         speedNum  |-> Max(0, OrOne(w.speedMult, 100) * OrOne(s.speedNum, s.den)),
         hungerNum |-> Max(0, OrOne(w.hungerMult, 100) * OrOne(s.hungerNum, s.den)),
         den |-> 100 * s.den,
         healthDelta |-> w.healthDelta + s.healthDelta]
  IN  both(GetModifiersForToday(g), GetAggregatedModifiers(g))

\* data.miles is kept in half miles; (miles | 0) drops the fraction
TruncMiles(m) == m \div 2

\* applyTravelDay(game) after its two awaits
ApplyTravelDayBody(g) ==
  LET done(g2, milesTraveled, f, healthDelta) ==
        [g |-> [(IF healthDelta # 0 THEN ApplyHealthToParty(g2, healthDelta) ELSE g2)
                  EXCEPT !.data.day = @ + 1, !.data.log = @ + 1],
         ret |-> [milesTraveled |-> milesTraveled, foodConsumed |-> f.consumed,
                  healthDelta |-> healthDelta, starvation |-> f.shortage > 0]]
      fed(o, pace, milesTraveled, f) ==
        done([f.g EXCEPT !.data.miles = Max(0, 2 * (TruncMiles(@) + milesTraveled))],
             milesTraveled, f,
             PaceHealthDelta(pace) + (IF f.shortage > 0 THEN -2 ELSE 0) + o.healthDelta)
      moving(o, pace, baseMiles) ==
        fed(o, pace, Max(0, RoundDiv(baseMiles * o.speedNum, o.den)),
            ConsumeFood(o.g, RoundDiv(CountAlive(o.g) * RATIONS_LB(o.g.data.rations)
                                        * o.hungerNum, 2 * o.den)))
      paced(o, pace) == moving(o, pace, RoundDiv(BASE_MPD * PaceMultiplier(pace), 100))
      overlaid(o) == paced(o, o.g.data.pace)
  IN  overlaid(Overlays(g))

\* applyRestDay(game) after its two awaits
ApplyRestDayBody(g) ==
  LET done(g2, f, healthDelta) ==
        [g |-> [(IF healthDelta # 0 THEN ApplyHealthToParty(g2, healthDelta) ELSE g2)
                  EXCEPT !.data.day = @ + 1, !.data.log = @ + 1],
         ret |-> [milesTraveled |-> 0, foodConsumed |-> f.consumed,
                  healthDelta |-> healthDelta, starvation |-> f.shortage > 0]]
      fed(o, rations, f) ==
        done(f.g, f,
             (IF f.shortage > 0 THEN -2
              ELSE IF rations \in {"normal", "generous"} THEN 1 ELSE 0) + o.healthDelta)
      resting(o, rations) ==
        fed(o, rations,
            ConsumeFood(o.g, RoundDiv(CountAlive(o.g) * RATIONS_LB(rations) * o.hungerNum,
                                      2 * o.den)))
      overlaid(o) == resting(o, o.g.data.rations)
  IN  overlaid(Overlays(g))

\* ------------------------------------------------------------------------
\* Async calls in flight.  An async function runs to its first await inside
\* the caller's turn; what follows each await is a continuation, and the
\* continuations run one at a time, first come first served, once the
\* promise they wait for has settled.
\* ------------------------------------------------------------------------
\* a call of applyTravelDay ("travel"), applyRestDay ("rest"), rollForDay
\* ("roll"), tickAndMaybeAcquire ("tick") or maybeTriggerEvent ("event"):
\* pc is the await it is suspended on, today the day it read when called,
\* awaited whether its caller waits for its promise
Task(kind, pc, today, awaited) ==
  [kind |-> kind, pc |-> pc, today |-> today, awaited |-> awaited]

\* the catalog whose load a suspended call is waiting for
Needs(t) ==
  CASE t.pc = "roll" -> "weather" [] t.pc = "tick" -> "status"
    [] t.pc = "trigger" -> "events" [] OTHER -> None

CanRun(g, t) == Needs(t) = None \/ Loaded(g.cat[Needs(t)])

Runnable(g) == {i \in 1 .. Len(g.tasks) : CanRun(g, g.tasks[i])}

\* no continuation is ready: the turn has ended and a new one may begin
Settled(g) == Runnable(g) = {}

\* ... and the caller of the last awaited call has its answer
Idle(g) == Settled(g) /\ \A i \in 1 .. Len(g.tasks) : ~g.tasks[i].awaited

FirstRunnable(g) == CHOOSE i \in Runnable(g) : \A j \in Runnable(g) : i <= j

Without(q, i) == [j \in 1 .. (Len(q) - 1) |-> IF j < i THEN q[j] ELSE q[j + 1]]

\* applyTravelDay / applyRestDay up to the await inside rollForDay: reads
\* today, and rollForDay's ensureLoaded starts the weather load if needed
CallDay(g, kind, awaited) ==
  [g EXCEPT !.tasks = Append(@, Task(kind, "roll", g.data.day, awaited)),
            !.cat = EnsureLoaded(@, "weather"),
            !.last = [op |-> "called", what |-> kind]]

\* rollForDay(game, dayNumber) called on its own, up to its await
CallRoll(g, dayNumber) ==
  [g EXCEPT !.tasks = Append(@, Task("roll", "roll", dayNumber, TRUE)),
            !.cat = EnsureLoaded(@, "weather"),
            !.last = [op |-> "called", what |-> "roll"]]

\* tickAndMaybeAcquire(game) called on its own, up to its await
CallTick(g) ==
  [g EXCEPT !.tasks = Append(@, Task("tick", "tick", g.data.day, TRUE)),
            !.cat = EnsureLoaded(@, "status"),
            !.last = [op |-> "called", what |-> "tick"]]

\* the continuation of rollForDay, and the step of its caller that follows
RollStage(g, i) ==
  LET t == g.tasks[i]
      moved(g1) ==
        IF t.kind = "roll"
        THEN [g1 EXCEPT !.tasks = Without(@, i)]
        ELSE [g1 EXCEPT !.tasks = Append(Without(@, i), [t EXCEPT !.pc = "tick"]),
                        !.cat = EnsureLoaded(@, "status")]
      noted(r, known) ==
        moved([r.g EXCEPT
                 !.seen.rolled = IF known = {} THEN @ \cup {[day |-> t.today, rec |-> r.ret]}
                                 ELSE @,
                 !.last = [op |-> "rollForDay", day |-> t.today, ret |-> r.ret,
                           first |-> known, rngBefore |-> g.rng,
                           logBefore |-> g.data.log]])
  IN  noted(RollForDayBody(g, t.today), {x \in g.seen.rolled : x.day = t.today})

\* the instances of conds a tick leaves in place, and the ids of those it
\* sends off as recovered
Survivors(conds) == {i \in 1 .. Len(conds) : conds[i].daysRemaining - 1 > 0}

Recovered(conds) == {conds[i].id : i \in (1 .. Len(conds)) \ Survivors(conds)}

\* the continuation of tickAndMaybeAcquire
TickStage(g, i) ==
  LET t == g.tasks[i]
      moved(g1) ==
        IF t.kind = "tick"
        THEN [g1 EXCEPT !.tasks = Without(@, i)]
        ELSE [g1 EXCEPT !.tasks = Append(Without(@, i), [t EXCEPT !.pc = "apply"])]
      told(g1, kept) ==
        moved([g1 EXCEPT
                 !.seen.ticked = @ \cup {g.data.day},
                 !.last = [op |-> "tickAndMaybeAcquire", day |-> g.data.day,
                           again |-> g.data.day \in g.seen.ticked,
                           before |-> g.data.status, rngBefore |-> g.rng,
                           recovered |-> Recovered(g.data.status.conditions),
                           acquired |->
                             {g1.data.status.conditions[k].id :
                                k \in (kept + 1) .. Len(g1.data.status.conditions)}]])
  IN  told(TickBody(g), Cardinality(Survivors(g.data.status.conditions)))

\* the rest of applyTravelDay / applyRestDay
ApplyStage(g, i) ==
  LET t == g.tasks[i]
      done(r) ==
        [r.g EXCEPT
           !.tasks = Without(@, i),
           !.last = [op |-> IF t.kind = "travel" THEN "applyTravelDay" ELSE "applyRestDay",
                     ret |-> r.ret, awaited |-> t.awaited, today |-> t.today,
                     day0 |-> g.data.day, miles0 |-> g.data.miles]]
  IN  done(IF t.kind = "travel" THEN ApplyTravelDayBody(g) ELSE ApplyRestDayBody(g))

\* ------------------------------------------------------------------------
\* Events (systems/eventEngine.js)
\* ------------------------------------------------------------------------
\* an effect of a choice; the fields its type does not read keep defaults
Eff(type) ==
  [type |-> type, item |-> None, delta |-> 0, target |-> None, status |-> "",
   days |-> 0, miles |-> 0, key |-> None, options |-> <<>>]

\* an option of a roll effect; log tells whether it has a line to log
Option(weight, effects, log) == [weight |-> weight, effects |-> effects, log |-> log]

Choice(id, effects, goto) ==
  [id |-> id, requires |-> [inventory |-> <<>>], effects |-> effects, goto |-> goto]

Stage(id, choices) == [id |-> id, choices |-> choices]

Event(id, weight, when, stages) ==
  [id |-> id, weight |-> weight, when |-> when, stages |-> stages]

\* an events.json as authored.  Miles are in half miles, money in cents.
EVENTS ==
  << Event("thin_ice", 1, [minDay |-> 1, mileLt |-> 1400],
       << Stage("start",
            << Choice("cross",
                      << [Eff("mortality") EXCEPT !.target = "child"],
                         [Eff("mortality") EXCEPT !.target = "child"],
                         [Eff("mortality") EXCEPT !.target = "child"],
                         [Eff("mortality") EXCEPT !.target = "child"] >>,
                      "shore"),
               Choice("hurry",
                      << [Eff("health") EXCEPT !.target = "family", !.delta = -5],
                         [Eff("time") EXCEPT !.days = 1] >>, "end") >>),
          Stage("shore",
            << Choice("warm",
                      << [Eff("status") EXCEPT !.target = "child", !.status = "chilled"] >>,
                      "end") >>) >>),
     Event("washout", 2, [maxDay |-> 3],
       << Stage("start",
            << Choice("shortcut", << [Eff("distance") EXCEPT !.miles = 15] >>, "end"),
               Choice("lighten",
                      << [Eff("inventory") EXCEPT !.item = "food", !.delta = -150],
                         [Eff("money") EXCEPT !.delta = -9900] >>, "end"),
               Choice("turn_back", << [Eff("time") EXCEPT !.days = -2] >>, "end") >>) >>),
     Event("trading_post", 3, [mileGte |-> 400, ifFlagMissing |-> "met_trader"],
       << Stage("start",
            << [Choice("buy",
                       << [Eff("money") EXCEPT !.delta = -2000],
                          [Eff("inventory") EXCEPT !.item = "food", !.delta = 20],
                          [Eff("mapFlag") EXCEPT !.key = "met_trader"] >>, "end")
                  EXCEPT !.requires = [moneyGte |-> 2000, inventory |-> <<>>]],
               [Choice("barter",
                       << [Eff("inventory") EXCEPT !.item = "bullets", !.delta = -10],
                          [Eff("inventory") EXCEPT !.item = "food", !.delta = 10] >>,
                       "haggle")
                  EXCEPT !.requires =
                           [inventory |-> << [item |-> "bullets", gte |-> 40] >>]],
               Choice("leave", << [Eff("mapFlag") EXCEPT !.key = "met_trader"] >>,
                      "goodbye") >>),
          Stage("goodbye", << Choice("wave", << >>, "end") >>) >>),
     Event("old_friend", 5, [ifFlag |-> "met_trader", mileLt |-> 1200],
       << Stage("start",
            << Choice("chat", << [Eff("morale") EXCEPT !.delta = 1] >>, "end") >>) >>),
     Event("late_frost", 4, [minDay |-> 20, maxDay |-> 25],
       << Stage("start",
            << Choice("push_on",
                      << [Eff("health") EXCEPT !.target = "random", !.delta = -1] >>,
                      "end") >>) >>),
     Event("hungry_bear", 50, [mileGte |-> 400, foodLt |-> 20],
       << Stage("start",
            << [Choice("scare",
                       << [Eff("inventory") EXCEPT !.item = "bullets", !.delta = -1] >>,
                       "end")
                  EXCEPT !.requires =
                           [inventory |-> << [item |-> "bullets", gte |-> 1] >>]],
               Choice("run", << [Eff("time") EXCEPT !.days = 1] >>, "end") >>) >>),
     Event("sharpshooter", 50, [bulletsGte |-> 50, medicineGte |-> 3],
       << Stage("start",
            << Choice("show_off",
                      << [Eff("inventory") EXCEPT !.item = "bullets", !.delta = -5] >>,
                      "end") >>) >>),
     Event("campfire", 50, [minDay |-> 40],
       << Stage("start",
            << Choice("sing",
                      << [Eff("health") EXCEPT !.target = "mike", !.delta = -1] >>,
                      "end"),
               Choice("tuck_in",
                      << [Eff("status") EXCEPT !.target = "child", !.status = "rested"] >>,
                      "end"),
               Choice("dare",
                      << [Eff("money") EXCEPT !.delta = -6000],
                         [Eff("roll") EXCEPT !.options =
                            << Option(5, << [Eff("money") EXCEPT !.delta = 1000] >>, TRUE),
                               Option(3, << [Eff("inventory") EXCEPT !.item = "food",
                                                                     !.delta = -5],
                                            [Eff("morale") EXCEPT !.delta = -5] >>,
                                      FALSE) >>],
                         Eff("fireworks"),
                         [Eff("morale") EXCEPT !.delta = 1] >>,
                      "embers") >>),
          Stage("embers", << Choice("sleep", << >>, None) >>) >>),
     Event("quiet_night", 1, [minDay |-> 200], << Stage("start", << >>) >>),
     Event("toll_gate", 1, [minDay |-> 200],
       << Stage("start",
            << [Choice("pay", << [Eff("money") EXCEPT !.delta = -1000] >>, "end")
                  EXCEPT !.requires = [moneyGte |-> 1000, inventory |-> <<>>]] >>) >>),
     Event("lost_trail", 1, [minDay |-> 200],
       << Stage("start",
            << Choice("wander", << [Eff("time") EXCEPT !.days = 1] >>, "clearing") >>) >>) >>

\* isEligible(ev, game)
IsEligible(ev, g) ==
  LET w == ev.when
      d == g.data
      has(f) == f \in DOMAIN w
  IN  /\ has("minDay") => ~(d.day < w.minDay)
      /\ has("maxDay") => ~(d.day > w.maxDay)
      /\ has("mileGte") => ~(d.miles < w.mileGte)
      /\ has("mileLt") => ~(d.miles >= w.mileLt)
      /\ has("ifFlag") => w.ifFlag \in d.flags.marks
      /\ has("ifFlagMissing") => w.ifFlagMissing \notin d.flags.marks
      /\ has("foodLt") => d.inventory.food < w.foodLt
      /\ has("bulletsGte") => d.inventory.bullets >= w.bulletsGte
      /\ has("medicineGte") => d.inventory.medicine >= w.medicineGte

\* r <= 1e-9 once weights summing to acc have been taken off
\* r = u / 2^32 * total: 1e-9 is between 4 and 5 parts in 2^32
DrawScaledLeEps(u, total, acc) ==
  LET x == Hi(u) * total + (Lo(u) * total) \div H16
  IN  \/ x < acc * H16
      \/ x = acc * H16 /\ (Lo(u) * total) % H16 <= 4

RECURSIVE FirstSpent(_, _, _, _, _)
FirstSpent(ws, u, total, i, acc) ==
  IF i >= Len(ws) THEN Len(ws)
  ELSE IF DrawScaledLeEps(u, total, acc + ws[i]) THEN i
       ELSE FirstSpent(ws, u, total, i + 1, acc + ws[i])

\* weightedPick(game, arr, weightFn) of the event engine on the weights ws
\* (Number(x.weight || 1), floored at 0): the session after and the index
EventPick(g, ws) ==
  LET drawn(d) == [g |-> d.g, i |-> FirstSpent(ws, d.u, SumWeights(ws, 1), 1, 0)]
  IN  IF SumWeights(ws, 1) <= 0 THEN [g |-> g, i |-> 1] ELSE drawn(Draw(g))

\* game.rng.nextInt(max): the session after and the integer
NextInt(g, max) ==
  LET drawn(d) == [g |-> d.g, v |-> ScaleInt(d.u, max)] IN drawn(Draw(g))

IsAlive(m) == m.status # "dead"

IsLivingChild(m) == m.status # "dead" /\ m.role \in {"child", "infant"}

\* indices of the living party members, or of the living children and
\* infants when role is "child", in party order
Indices(g, role) ==
  SelectSeq2([i \in 1 .. Len(g.data.party) |-> i],
             {i \in 1 .. Len(g.data.party) :
                IF role = "child" THEN IsLivingChild(g.data.party[i])
                ELSE IsAlive(g.data.party[i])}, 1)

\* pickPartyMember(game, 'child'): the session after and the member's index
\* in the party (0 for null)
PickPartyMember(g) ==
  LET of(subset, n) == [g |-> n.g, v |-> subset[n.v + 1]]
      among(party, subset) ==
        IF subset = <<>>
        THEN [g |-> g, v |-> IF party = <<>> THEN 0 ELSE party[1]]
        ELSE of(subset, NextInt(g, Len(subset)))
  IN  among(Indices(g, "any"), Indices(g, "child"))

\* resolveTargets(game, spec, session): the session after and the indices
\* of the members returned
ResolveTargets(g, spec, ses) ==
  LET of(pool, n) == [g |-> n.g, v |-> << pool[n.v + 1] >>]
      any(pool) == of(pool, NextInt(g, Len(pool)))
      among(party, c) ==
        IF party = <<>> THEN [g |-> g, v |-> <<>>]
        ELSE IF spec \in {"family", "all"} THEN [g |-> g, v |-> party]
        ELSE IF spec = "child"
             THEN IF c # <<>> THEN any(c)
                  ELSE IF ses.child # 0 THEN [g |-> g, v |-> << ses.child >>]
                  ELSE any(party)
        ELSE any(party)
  IN  among(Indices(g, "any"), Indices(g, "child"))

\* Number(e.weight || 1), floored at 0
EventWeight(e) == Max(0, IF e.weight = 0 THEN 1 ELSE e.weight)

RECURSIVE ApplyEffects(_, _, _, _)

\* a time effect that adds its days as they are
LoseDays_Signed(d, days) == [d EXCEPT !.day = @ + days]

\* the time effect on game.data: day + Math.max(0, days)
LoseDays(d, days) == [d EXCEPT !.day = @ + Max(0, days)]

\* one effect of applyEffects: the session state and event session after it
ApplyEffect(g, ses, eff) ==
  LET noted(g1, n) == [g |-> [g1 EXCEPT !.data.log = @ + n],
                       ses |-> [ses EXCEPT !.notes = @ + 1]]
      each(r, f(_)) ==
        noted([r.g EXCEPT !.data.party =
                 [i \in DOMAIN @ |->
                    IF i \in {r.v[k] : k \in 1 .. Len(r.v)} THEN f(@[i]) ELSE @[i]]], 1)
      hurt(m)  == [m EXCEPT !.health = Clamp(@ + eff.delta, 0, 5)]
      named(m) == IF eff.status # "" THEN [m EXCEPT !.status = eff.status] ELSE m
      killed(r) ==
        IF r.v # <<>> /\ r.g.data.party[r.v[1]].status # "dead"
        THEN noted([r.g EXCEPT !.data.party[r.v[1]].status = "dead",
                               !.data.party[r.v[1]].health = 0], 1)
        ELSE [g |-> r.g, ses |-> ses]
      said(r, log) ==
        IF log THEN [g |-> [r.g EXCEPT !.data.log = @ + 1],
                     ses |-> [r.ses EXCEPT !.notes = @ + 1]]
        ELSE r
      rolled(p) ==
        said(ApplyEffects(p.g, ses, eff.options[p.i].effects, 1), eff.options[p.i].log)
  IN  CASE eff.type = "inventory" ->
             IF eff.item = None THEN [g |-> g, ses |-> ses]
             ELSE noted([g EXCEPT !.data.inventory[eff.item] = @ + eff.delta], 1)
        [] eff.type = "money" ->
             noted([g EXCEPT !.data.money = Max(0, @ + eff.delta)], 1)
        [] eff.type = "health" -> each(ResolveTargets(g, eff.target, ses), hurt)
        [] eff.type = "status" -> each(ResolveTargets(g, eff.target, ses), named)
        [] eff.type = "time" ->
             noted([g EXCEPT !.data = LoseDays(@, eff.days)], 1)
        [] eff.type = "distance" ->
             noted([g EXCEPT !.data.miles = Max(0, @ + eff.miles)], 1)
        [] eff.type = "mapFlag" ->
             noted(IF eff.key = None THEN g
                   ELSE [g EXCEPT !.data.flags.marks = @ \cup {eff.key}], 0)
        [] eff.type = "morale" ->
             noted([g EXCEPT !.data.morale = Clamp(@ + eff.delta, -5, 5)], 1)
        [] eff.type = "mortality" ->
             killed(ResolveTargets(g, IF eff.target = None THEN "random" ELSE eff.target,
                                   ses))
        [] eff.type = "roll" ->
             IF eff.options = <<>> THEN [g |-> g, ses |-> ses]
             ELSE rolled(EventPick(g, [k \in 1 .. Len(eff.options) |->
                                         EventWeight(eff.options[k])]))
        [] OTHER -> noted(g, 0)

\* the effect types applyEffects has a case for
EffectTypes ==
  {"inventory", "money", "health", "status", "time", "distance", "mapFlag", "riskBuff",
   "morale", "mortality", "roll"}

RECURSIVE ApplyEffects_UntilUnknown(_, _, _, _)
\* applyEffects that gives up at the first effect of a type it does not know
ApplyEffects_UntilUnknown(g, ses, effects, k) ==
  LET rest(r) == ApplyEffects_UntilUnknown(r.g, r.ses, effects, k + 1)
  IN  IF k > Len(effects) \/ effects[k].type \notin EffectTypes THEN [g |-> g, ses |-> ses]
      ELSE rest(ApplyEffect(g, ses, effects[k]))

\* applyEffects(effects, game, session), from effect k on
ApplyEffects(g, ses, effects, k) ==
  LET rest(r) == ApplyEffects(r.g, r.ses, effects, k + 1)
  IN  IF k > Len(effects) THEN [g |-> g, ses |-> ses]
      ELSE rest(ApplyEffect(g, ses, effects[k]))

\* findStage without the fallback: no stage when stageId names none
FindStage_Strict(ses) ==
  LET stages == EVENTS[ses.event].stages
      named  == {k \in 1 .. Len(stages) : stages[k].id = ses.stageId}
  IN  IF named # {} THEN stages[CHOOSE k \in named : \A j \in named : k <= j]
      ELSE Stage(None, <<>>)

\* missingRequirements that finds nothing missing
MissingRequirements_None(ch, g) == FALSE

\* every event of the catalog, eligible or not
Eligible_All(g) == [k \in 1 .. Len(EVENTS) |-> k]

\* findStage(session): the stage named by stageId, else the first stage
FindStage(ses) ==
  LET stages == EVENTS[ses.event].stages
      named  == {k \in 1 .. Len(stages) : stages[k].id = ses.stageId}
  IN  IF named # {} THEN stages[CHOOSE k \in named : \A j \in named : k <= j]
      ELSE stages[1]

\* missingRequirements(choice, game).length > 0
MissingRequirements(ch, g) ==
  \/ "moneyGte" \in DOMAIN ch.requires /\ ~(g.data.money >= ch.requires.moneyGte)
  \/ \E k \in 1 .. Len(ch.requires.inventory) :
       ~(g.data.inventory[ch.requires.inventory[k].item] >= ch.requires.inventory[k].gte)

\* maybeTriggerEvent(game) up to its await: ensureEvents fetches events.json
\* unless EVENTS is already set
CallEvent(g) ==
  [g EXCEPT !.tasks = Append(@, Task("event", "trigger", g.data.day, TRUE)),
            !.cat.events = IF @ = "ok" THEN "ok" ELSE "loading",
            !.last = [op |-> "called", what |-> "event"]]

\* the eligible events, and the first of the catalog when there is none
Eligible_OrFirst(g) ==
  LET some(e) == IF e = <<>> THEN << 1 >> ELSE e
  IN  some(SelectSeq2([k \in 1 .. Len(EVENTS) |-> k],
                      {k \in 1 .. Len(EVENTS) : IsEligible(EVENTS[k], g)}, 1))

\* indices of the events of the catalog that are eligible now
Eligible(g) ==
  SelectSeq2([k \in 1 .. Len(EVENTS) |-> k],
             {k \in 1 .. Len(EVENTS) : IsEligible(EVENTS[k], g)}, 1)

\* a cooldown shorter than the one the engine sets
FreshCooldown_Short(n) == n

\* 3 + game.rng.nextInt(4), given the integer drawn
FreshCooldown(n) == 3 + n

\* maybeTriggerEvent(game) after ensureEvents has loaded the catalog
TriggerBody(g) ==
  LET cd == g.data.flags.evtCooldownDays
      opened(n, ev, child) ==
        [g |-> Save([n.g EXCEPT
                 !.data.flags.evtCooldownDays = FreshCooldown(n.v),
                 !.data.log = @ + 1,
                 !.session = [open |-> TRUE, event |-> ev,
                              stageId |-> EVENTS[ev].stages[1].id,
                              child |-> child, notes |-> 0]]),
         ret |-> ev]
      cast(c, ev) == opened(NextInt(c.g, 4), ev, c.v)
      picked(p, eligible) == cast(PickPartyMember(p.g), eligible[p.i])
      among(eligible) ==
        IF eligible = <<>>
        THEN [g |-> Save([g EXCEPT !.data.flags.evtCooldownDays = 1]), ret |-> 0]
        ELSE picked(EventPick(g, [k \in 1 .. Len(eligible) |->
                                    EventWeight(EVENTS[eligible[k]])]), eligible)
  IN  IF cd > 0
      THEN [g |-> Save([g EXCEPT !.data.flags.evtCooldownDays = cd - 1]), ret |-> 0]
      ELSE among(Eligible(g))

\* the continuation of maybeTriggerEvent: it throws when the fetch failed
TriggerStage(g, i) ==
  LET done(r) ==
        [r.g EXCEPT !.tasks = Without(@, i),
                    !.seen.quiet = IF r.ret # 0 THEN 0 ELSE IF @ = -1 THEN -1 ELSE @ + 1,
                    !.last = [op |-> "maybeTriggerEvent", threw |-> FALSE,
                              ret |-> r.ret, rngBefore |-> g.rng,
                              cooldownBefore |-> g.data.flags.evtCooldownDays,
                              logBefore |-> g.data.log, dataBefore |-> g.data,
                              quiet |-> g.seen.quiet]]
  IN  IF g.cat.events = "failed"
      THEN [g EXCEPT !.tasks = Without(@, i),
                     !.last = [op |-> "maybeTriggerEvent", threw |-> TRUE]]
      ELSE done(TriggerBody(g))

\* the choices renderStage maps: those of the stage, or Continue for a stage
\* that has none
RawChoices(st) ==
  IF st.choices # <<>> THEN st.choices ELSE << Choice("continue", << >>, "end") >>

\* renderStage(session, game): the stage shown and the ids of its choices;
\* findStage throws for an event that has no stage at all
RenderStageBody(g) ==
  LET shown(st) ==
        [g EXCEPT !.last = [op |-> "renderStage", threw |-> FALSE, stage |-> st.id,
                            choices |-> [k \in 1 .. Len(RawChoices(st)) |->
                                           RawChoices(st)[k].id],
                            sessionBefore |-> g.session]]
  IN  IF EVENTS[g.session.event].stages = <<>>
      THEN [g EXCEPT !.last = [op |-> "renderStage", threw |-> TRUE]]
      ELSE shown(FindStage(g.session))

\* choose(session, choiceId, game)
ChooseBody(g, choiceId) ==
  LET was == [rngBefore |-> g.rng, dataBefore |-> g.data]
      told(st, done, applied) ==
        [op |-> "choose", threw |-> FALSE, done |-> done, applied |-> applied,
         was |-> was, stage |-> st.id, choice |-> choiceId, sessionBefore |-> g.session,
         storageBefore |-> g.storage]
      moved(r, st, ch, on) ==
        Save([r.g EXCEPT
                !.session = IF on THEN [r.ses EXCEPT !.stageId = ch.goto]
                            ELSE NoSession,
                !.last = told(st, ~on, TRUE)])
      taken(st, ch) ==
        IF MissingRequirements(ch, g)
        THEN [g EXCEPT !.session.notes = @ + 1, !.last = told(st, FALSE, FALSE)]
        ELSE moved(ApplyEffects(g, g.session, ch.effects, 1), st, ch,
                   ch.goto \notin {None, "end"})
      listed(st) ==
        taken(st, st.choices[CHOOSE k \in 1 .. Len(st.choices) :
                               /\ st.choices[k].id = choiceId
                               /\ \A j \in 1 .. (k - 1) : st.choices[j].id # choiceId])
      at(st) ==
        IF \E k \in 1 .. Len(st.choices) : st.choices[k].id = choiceId THEN listed(st)
        ELSE IF choiceId = "continue" THEN taken(st, Choice("continue", << >>, "end"))
        ELSE [g EXCEPT !.session = NoSession, !.last = told(st, TRUE, FALSE)]
  IN  at(FindStage(g.session))

\* the continuation that is first in line
StepTask(g) ==
  LET step(i, pc) ==
        CASE pc = "roll" -> RollStage(g, i)
          [] pc = "tick" -> TickStage(g, i)
          [] pc = "apply" -> ApplyStage(g, i)
          [] pc = "trigger" -> TriggerStage(g, i)
      first(i) == step(i, g.tasks[i].pc)
  IN  first(FirstRunnable(g))

\* ------------------------------------------------------------------------
\* Hazards (systems/river.js)
\* ------------------------------------------------------------------------
\* getHazardState without the copy: the landmark's own hazard object is
\* stored
GetHazardState_Shared(g, lm) ==
  IF g.data.flags.hazardState[lm.id].kind = None
  THEN [g EXCEPT !.data.flags.hazardState[lm.id] = lm.hazard,
                 !.cat.aliased = @ \cup {lm.id}]
  ELSE g

\* getHazardState that copies the landmark's hazard on every access
GetHazardState_Fresh(g, lm) ==
  [g EXCEPT !.data.flags.hazardState[lm.id] = lm.hazard]

\* getHazardState(game, landmark): the session with the landmark's state
\* in flags.hazardState, copied from the landmark's hazard on first access
GetHazardState(g, lm) ==
  IF g.data.flags.hazardState[lm.id].kind = None
  THEN [g EXCEPT !.data.flags.hazardState[lm.id] = lm.hazard]
  ELSE g

\* roll(game, p) with p = num / den: the session after and the outcome
Roll(g, num, den) ==
  LET drawn(d) == [g |-> d.g, v |-> DrawLt(d.u, num, den)] IN drawn(Draw(g))

RECURSIVE SpendDays(_, _)
\* spendDays(game, days, label): applyRestDay is called days times and its
\* promise dropped; then one log line
SpendDays(g, days) ==
  IF days <= 0 THEN g
  ELSE IF days = 1 THEN [CallDay(g, "rest", FALSE) EXCEPT !.data.log = @ + 1]
  ELSE SpendDays(CallDay(g, "rest", FALSE), days - 1)

\* spendMoney(game, fee), fee in cents
SpendMoney(g, fee) == [g EXCEPT !.data.money = Max(0, @ - fee)]

\* dingHealth(game, delta)
DingHealth(g, delta) ==
  LET hit(n, alive) ==
        [n.g EXCEPT !.data.party[alive[n.v + 1]].health = Clamp(@ + delta, 0, 5)]
      among(alive) == IF alive = <<>> THEN g ELSE hit(NextInt(g, Len(alive)), alive)
  IN  among(Indices(g, "any"))

Parts == << "wheel", "axle", "tongue" >>

\* maybeNickPart(game, chance) with chance in hundredths
MaybeNickPart(g, chance) ==
  LET nicked(g1, pick) ==
        IF g1.data.inventory[pick] > 0
        THEN [g1 EXCEPT !.data.inventory[pick] = @ - 1, !.data.log = @ + 1]
        ELSE g1
      picked(n) == nicked(n.g, Parts[n.v + 1])
      rolled(r) == IF ~r.v THEN r.g ELSE picked(NextInt(r.g, Len(Parts)))
  IN  rolled(Roll(g, chance, 100))

\* clearBlock that saves and leaves the parked flag alone
ClearBlock_SaveOnly(g, lm) == Save(g)

\* clearBlock(game, landmark)
ClearBlock(g, lm) ==
  Save(IF g.data.flags.atLandmarkId = lm.id
       THEN [g EXCEPT !.data.flags.atLandmarkId = None]
       ELSE g)

Logged(g) == [g EXCEPT !.data.log = @ + 1]

\* a result that reports every attempt as unresolved
Out_Unresolved(g, resolved) == [g |-> g, ret |-> [resolved |-> FALSE, crossed |-> FALSE]]

\* what an attempt returns: the session after it and { resolved, crossed }
Out(g, resolved) == [g |-> g, ret |-> [resolved |-> resolved, crossed |-> resolved]]

\* a fall-through that waits a day before it answers
Unsure_Waits(g) == Out(SpendDays(g, 1), FALSE)

\* the return after the switch on the method: 'Unsure what to do here.'
Unsure(g) == Out(g, FALSE)

\* mudAttempt(game, landmark, hz, method); badness is kept in hundredths
MudAttempt(g0, lm, method) ==
  LET driven(r) ==
        IF r.v THEN Out(Logged(ClearBlock(r.g, lm)), TRUE)
        ELSE Out(DingHealth(MaybeNickPart(SpendDays(r.g, 1), 40), -1), FALSE)
      stuck(s) == Out(IF s.v THEN MaybeNickPart(s.g, 30) ELSE s.g, FALSE)
      prepped(r) ==
        IF r.v THEN Out(Logged(ClearBlock(r.g, lm)), TRUE)
        ELSE stuck(Roll(SpendDays(r.g, 1), 25, 100))
      towed(n) ==
        Out(Logged(ClearBlock(SpendDays(SpendMoney(n.g, 100 * (10 + n.v)), 1), lm)), TRUE)
      around(n) == Out(ClearBlock(SpendDays(n.g, 1 + n.v), lm), TRUE)
      at(g, bad) ==
        CASE method = "drive" ->
               driven(Roll(g, Clamp(2000 + 60 * (100 - bad), 500, 9000), 10000))
          [] method = "prep" ->
               prepped(Roll(g, Clamp(5500 + 35 * (100 - bad), 2000, 9500), 10000))
          [] method = "service" -> towed(NextInt(g, 15))
          [] method = "wait" ->
               Out([SpendDays(g, 1) EXCEPT
                      !.data.flags.hazardState[lm.id].badness = Clamp(@ - 20, 0, 100)],
                   FALSE)
          [] method = "detour" -> around(NextInt(g, 2))
          [] OTHER -> Unsure(g)
  IN  at([g0 EXCEPT !.data.flags.hazardState[lm.id].badness = Clamp(@, 0, 100)],
         Clamp(g0.data.flags.hazardState[lm.id].badness, 0, 100))

\* estimateSuccess(hz, method) for a river, in ten-thousandths
EstimateSuccess(hz, method) ==
  LET depth == IF hz.depthFt = 0 THEN 20 ELSE hz.depthFt
      width == IF hz.widthFt = 0 THEN 150 ELSE hz.widthFt
      widthPenalty == IF width > 300 THEN 800 ELSE IF width > 200 THEN 500 ELSE 0
      flowPenalty == IF hz.current = "fast" THEN 1500
                     ELSE IF hz.current = "slow" THEN -500 ELSE 0
  IN  IF method = "drive"
      THEN Clamp((IF depth < 20 THEN 7000 ELSE IF depth < 30 THEN 4000 ELSE 1500)
                   - widthPenalty - Max(0, flowPenalty), 500, 9000)
      ELSE Clamp(8500 - (IF depth > 30 THEN 50 * (depth - 30) ELSE 0) - widthPenalty
                   - (IF flowPenalty > 0 THEN (flowPenalty * 6) \div 10 ELSE 0), 1000, 9500)

\* riverFail(game, hz, reason)
RiverFail(g) ==
  LET damp(g4) == Logged(DingHealth(MaybeNickPart(g4, 30), -1))
      shot(r) ==
        damp(IF r.v /\ r.g.data.inventory.bullets > 0
             THEN [r.g EXCEPT !.data.inventory.bullets = Max(0, @ - 3)] ELSE r.g)
      worn(r) ==
        shot(Roll(IF r.v /\ r.g.data.inventory.clothes > 0
                  THEN [r.g EXCEPT !.data.inventory.clothes = @ - 1] ELSE r.g, 3, 10))
      soaked(n) ==
        worn(Roll([n.g EXCEPT !.data.inventory.food = Max(0, @ - (5 + n.v))], 4, 10))
  IN  soaked(NextInt(SpendDays(g, 1), 11))

\* riverAttempt(game, landmark, hz, method)
RiverAttempt(g, lm, method) ==
  LET hz == g.data.flags.hazardState[lm.id]
      depth == IF hz.depthFt = 0 THEN 20 ELSE hz.depthFt
      width == IF hz.widthFt = 0 THEN 150 ELSE hz.widthFt
      tried(r) ==
        IF r.v THEN Out(Logged(ClearBlock(r.g, lm)), TRUE) ELSE Out(RiverFail(r.g), FALSE)
      landed(r) ==
        Out(Logged(ClearBlock(IF ~r.v THEN MaybeNickPart(r.g, 30) ELSE r.g, lm)), TRUE)
      queued(fee, n) ==
        landed(Roll(SpendDays(SpendMoney(n.g, fee), 1 + n.v), 98, 100))
      priced(n) == queued(600 + 2 * width + 15 * depth + 100 * n.v, NextInt(n.g, 3))
      calmed(d) ==
        IF DrawLt(d.u, 4, 10)
        THEN [d.g EXCEPT !.data.flags.hazardState[lm.id].current = "moderate"] ELSE d.g
      dropped(g1) == Out(IF hz.current = "fast" THEN calmed(Draw(g1)) ELSE g1, FALSE)
      paid(days, n) ==
        Out(Logged(ClearBlock(SpendDays(SpendMoney(n.g, 100 * (5 + n.v)), days), lm)), TRUE)
      around(n) == paid(2 + n.v, NextInt(n.g, 11))
  IN  CASE method \in {"drive", "prep"} -> tried(Roll(g, EstimateSuccess(hz, method), 10000))
        [] method = "service" -> priced(NextInt(g, 4))
        [] method = "wait" ->
             dropped([SpendDays(g, 1) EXCEPT
                        !.data.flags.hazardState[lm.id].depthFt = Max(5, depth - 5)])
        [] method = "detour" -> around(NextInt(g, 3))
        [] OTHER -> Unsure(g)

\* snowAttempt(game, landmark, hz, method); driftFt in tenths of a foot
SnowAttempt(g0, lm, method) ==
  LET hung(s) == DingHealth(IF s.v THEN MaybeNickPart(s.g, 50) ELSE s.g, -1)
      punched(r) ==
        IF r.v THEN Out(Logged(ClearBlock(r.g, lm)), TRUE)
        ELSE Out(hung(Roll(SpendDays(r.g, 1), 35, 100)), FALSE)
      shoveled(r) ==
        IF r.v THEN Out(Logged(ClearBlock(r.g, lm)), TRUE) ELSE Out(r.g, FALSE)
      plowed(n) ==
        Out(Logged(ClearBlock(SpendDays(SpendMoney(n.g, 100 * (12 + n.v)), 1), lm)), TRUE)
      around(n) == Out(ClearBlock(SpendDays(n.g, 1 + n.v), lm), TRUE)
      at(g, drift) ==
        CASE method = "drive" -> punched(Roll(g, IF drift < 15 THEN 45 ELSE 25, 100))
          [] method = "prep" ->
               shoveled(Roll(SpendDays(g, 1),
                             Clamp(9000 - 200 * (drift - 10), 3000, 9500), 10000))
          [] method = "service" -> plowed(NextInt(g, 20))
          [] method = "wait" ->
               Out([SpendDays(g, 1) EXCEPT
                      !.data.flags.hazardState[lm.id].driftFt = Max(5, drift - 5)], FALSE)
          [] method = "detour" -> around(NextInt(g, 3))
          [] OTHER -> Unsure(g)
      from(drift) == at([g0 EXCEPT !.data.flags.hazardState[lm.id].driftFt = drift], drift)
  IN  from(Max(5, IF g0.data.flags.hazardState[lm.id].driftFt = 0 THEN 20
                  ELSE g0.data.flags.hazardState[lm.id].driftFt))

\* geeseAttempt(game, landmark, hz, method)
GeeseAttempt(g0, lm, method) ==
  LET pecked(s) == IF s.v THEN DingHealth(s.g, -1) ELSE s.g
      honked(r) ==
        IF r.v THEN Out(Logged(ClearBlock(r.g, lm)), TRUE)
        ELSE Out(pecked(Roll(SpendDays(r.g, 1), 4, 10)), FALSE)
      bribed(r) ==
        IF r.v THEN Out(Logged(ClearBlock(r.g, lm)), TRUE) ELSE Out(r.g, FALSE)
      fed(g1, foodSpend, pPrep) ==
        bribed(Roll(IF foodSpend >= 2
                    THEN [g1 EXCEPT !.data.inventory.food = Max(0, @ - foodSpend)]
                    ELSE [g1 EXCEPT !.data.flags.hazardState[lm.id].flock = @ + 10],
                    pPrep, 10000))
      bread(n, pPrep) == fed(n.g, Min(n.g.data.inventory.food, 2 + n.v), pPrep)
      shooed(n) ==
        Out(Logged(ClearBlock(SpendDays(SpendMoney(n.g, 100 * (5 + n.v)), 1), lm)), TRUE)
      thinned(d, flock) ==
        Out([d.g EXCEPT !.data.flags.hazardState[lm.id].flock =
               Max(5, (4 * flock + 5 + ScaleInt(d.u, 2 * flock)) \div 10)], FALSE)
      around(n) == Out(ClearBlock(SpendDays(n.g, 1 + n.v), lm), TRUE)
      at(g, flock) ==
        CASE method = "drive" -> honked(Roll(g, Clamp(7500 - 50 * flock, 2000, 9000), 10000))
          [] method = "prep" -> bread(NextInt(g, 4), Clamp(9200 - 25 * flock, 4000, 9700))
          [] method = "service" -> shooed(NextInt(g, 8))
          [] method = "wait" -> thinned(Draw(SpendDays(g, 1)), flock)
          [] method = "detour" -> around(NextInt(g, 2))
          [] OTHER -> Unsure(g)
      from(flock) == at([g0 EXCEPT !.data.flags.hazardState[lm.id].flock = flock], flock)
  IN  from(Max(5, IF g0.data.flags.hazardState[lm.id].flock = 0 THEN 60
                  ELSE g0.data.flags.hazardState[lm.id].flock))

\* beaverAttempt(game, landmark, hz, method); gapFt in feet
BeaverAttempt(g0, lm, method) ==
  LET bounced(r) ==
        IF r.v THEN Out(Logged(ClearBlock(r.g, lm)), TRUE)
        ELSE Out(DingHealth(MaybeNickPart(SpendDays(r.g, 1), 50), -1), FALSE)
      hopped(r) ==
        IF r.v THEN Out(Logged(ClearBlock(r.g, lm)), TRUE)
        ELSE Out(SpendDays(r.g, 1), FALSE)
      floated(n) ==
        Out(Logged(ClearBlock(SpendDays(SpendMoney(n.g, 100 * (12 + n.v)), 1), lm)), TRUE)
      around(n) == Out(ClearBlock(SpendDays(n.g, 1 + n.v), lm), TRUE)
      at(g, gap) ==
        CASE method = "drive" -> bounced(Roll(g, IF gap < 6 THEN 55 ELSE 25, 100))
          [] method = "prep" -> hopped(Roll(g, Clamp(7500 - 500 * (gap - 6), 2500, 9000), 10000))
          [] method = "service" -> floated(NextInt(g, 14))
          [] method = "wait" ->
               Out([SpendDays(g, 1) EXCEPT
                      !.data.flags.hazardState[lm.id].gapFt = Max(2, gap - 2)], FALSE)
          [] method = "detour" -> around(NextInt(g, 3))
          [] OTHER -> Unsure(g)
      from(gap) == at([g0 EXCEPT !.data.flags.hazardState[lm.id].gapFt = gap], gap)
  IN  from(Max(2, IF g0.data.flags.hazardState[lm.id].gapFt = 0 THEN 8
                  ELSE g0.data.flags.hazardState[lm.id].gapFt))

\* the landmark object the caller passes: its hazard is what the process
\* holds for it
Held(g, lm) == [lm EXCEPT !.hazard = g.cat.landmarks[lm.id]]

\* a write to a stored hazard state is a write to the landmark's hazard
\* where the two are one object
WrittenThrough(g) ==
  [g EXCEPT !.cat.landmarks =
     [id \in LandmarkIds |->
        IF id \in g.cat.aliased THEN g.data.flags.hazardState[id] ELSE @[id]]]

\* tryMethod(game, landmark, methodId)
TryMethodBody(g, lm, method) ==
  LET done(r) ==
        [WrittenThrough(r.g) EXCEPT !.last = [op |-> "tryMethod", landmark |-> lm.id, method |-> method,
                              ret |-> r.ret, spent |-> Len(r.g.tasks) - Len(g.tasks),
                              was |-> [rngBefore |-> g.rng, dataBefore |-> g.data]]]
      at(g1) ==
        done(CASE g1.data.flags.hazardState[lm.id].kind = "river" -> RiverAttempt(g1, lm, method)
               [] g1.data.flags.hazardState[lm.id].kind = "mud" -> MudAttempt(g1, lm, method)
               [] g1.data.flags.hazardState[lm.id].kind = "snow" -> SnowAttempt(g1, lm, method)
               [] g1.data.flags.hazardState[lm.id].kind = "geese" -> GeeseAttempt(g1, lm, method)
               [] g1.data.flags.hazardState[lm.id].kind = "beaver" -> BeaverAttempt(g1, lm, method)
               [] OTHER -> Out(g1, FALSE))
  IN  at([GetHazardState(g, Held(g, lm)) EXCEPT !.data.flags.atLandmarkId = lm.id])

\* ------------------------------------------------------------------------
\* A session played through the core API
\* ------------------------------------------------------------------------
\* seeds of the games played; 0x92D4860B is the seed from which the first
\* draw leaves the generator at state 0
GameSeeds == { Word(0, 42), Word(37588, 34315) }

\* how many calls the client of the core makes in one run
MaxOps == 3

Paces == {"steady", "strenuous", "grueling"}

Rations == {"meager", "normal", "generous"}

Methods == {"drive", "prep", "service", "wait", "detour"}

IsGame(g) ==
  /\ rng = g.rng
  /\ data = g.data
  /\ storage = g.storage
  /\ tasks = g.tasks
  /\ cat = g.cat
  /\ session = g.session
  /\ seen = g.seen
  /\ last = g.last

\* a fresh process: startNewGame(seed) on a new GameState
Init ==
  /\ seed0 \in GameSeeds
  /\ insts = [i \in {"a", "b"} |-> RNGCtor(seed0)]
  /\ outs = [i \in {"a", "b"} |-> NoOut]
  /\ calls = 0
  /\ Offstage
  /\ IsGame([StartNewGame(CtorGame, seed0) EXCEPT !.last = [op |-> "startNewGame"]])
  /\ twin = CtorGame

\* one call by the client, made once its last awaited call has answered
Client(g) ==
  /\ Idle(Game)
  /\ calls < MaxOps
  /\ Becomes(g)
  /\ calls' = calls + 1
  /\ UNCHANGED <<insts, outs, seed0, loader, hunt, twin>>

\* await applyTravelDay(game)
TravelDay == ~session.open /\ Client(CallDay(Game, "travel", TRUE))

\* await applyRestDay(game)
RestDay == ~session.open /\ Client(CallDay(Game, "rest", TRUE))

\* await rollForDay(game, game.data.day)
RollForDay == ~session.open /\ Client(CallRoll(Game, data.day))

\* await tickAndMaybeAcquire(game)
TickAndMaybeAcquire == ~session.open /\ Client(CallTick(Game))

\* await maybeTriggerEvent(game)
MaybeTriggerEvent == ~session.open /\ Client(CallEvent(Game))

\* choose(session, choiceId, game) on a choice the open stage presents
Choose ==
  /\ session.open
  /\ \E k \in 1 .. Len(FindStage(session).choices) :
       Client(ChooseBody(Game, FindStage(session).choices[k].id))

\* tryMethod(game, landmark, methodId)
TryMethod ==
  /\ ~session.open
  /\ \E k \in 1 .. Len(Landmarks), m \in Methods :
       Client(TryMethodBody(Game, Landmarks[k], m))

\* game.save()
SaveGame == Client([Save(Game) EXCEPT !.last = [op |-> "save"]])

\* continueGame() on a fresh GameState over the same storage, in the same
\* process: no call of the old instance is in flight
ContinueGameOp ==
  /\ tasks = <<>>
  /\ Client([ContinueGame(Game) EXCEPT
               !.session = NoSession,
               !.seen = [NoneSeen EXCEPT !.quiet = seen.quiet],
               !.last = [op |-> "continueGame", prev |-> last.op,
                         was |-> [rngBefore |-> rng, dataBefore |-> data]]])

\* the pace selector of the travel screen: set, then save
SetPace ==
  /\ ~session.open
  /\ \E p \in Paces \ {data.pace} :
       Client([Save([Game EXCEPT !.data.pace = p]) EXCEPT !.last = [op |-> "setPace"]])

\* the rations selector of the travel screen: set, then save
SetRations ==
  /\ ~session.open
  /\ \E r \in Rations \ {data.rations} :
       Client([Save([Game EXCEPT !.data.rations = r]) EXCEPT !.last = [op |-> "setRations"]])

\* the next continuation runs
RunTask ==
  /\ ~Settled(Game)
  /\ Becomes(StepTask(Game))
  /\ UNCHANGED <<rngVars, loader, hunt, twin>>

\* a pending fetch settles, once the turn in progress has ended
Settle(which, outcomes) ==
  /\ Settled(Game)
  /\ cat[which] = "loading"
  /\ \E o \in outcomes : cat' = [cat EXCEPT ![which] = o]
  /\ UNCHANGED <<rngVars, loader, hunt, rng, data, storage, tasks, session, seen, twin, last>>

\* weather.json arrives, or the fetch fails and FALLBACK is used
LoadWeather == Settle("weather", {"ok", "fallback"})

\* diseases.json arrives, or the fetch fails and the built-in config is used
LoadStatus == Settle("status", {"ok", "fallback"})

\* events.json arrives, or the fetch fails
LoadEvents == Settle("events", {"ok", "failed"})

Next ==
  \/ TravelDay \/ RestDay \/ RollForDay \/ TickAndMaybeAcquire
  \/ MaybeTriggerEvent \/ Choose \/ TryMethod
  \/ SaveGame \/ ContinueGameOp \/ SetPace \/ SetRations
  \/ RunTask \/ LoadWeather \/ LoadStatus \/ LoadEvents

Spec == Init /\ [][Next]_vars

\* ------------------------------------------------------------------------
\* Properties of a session
\* ------------------------------------------------------------------------
\* the value the next call of next() returns from generator state s
NextValue(s) == RNGOutput(RNGAdvance(s))

CoreOps == {"applyTravelDay", "applyRestDay", "maybeTriggerEvent", "choose", "tryMethod"}

\* the operation that completed last is a core operation that ran to its end
CoreOpDone ==
  /\ last.op \in CoreOps
  /\ last.op = "maybeTriggerEvent" => ~last.threw

\* C3: save() followed by continueGame() on a fresh GameState over the same
\* storage restores the same data document and an RNG whose next value is the
\* one the original RNG would have produced next, whatever 32-bit state the
\* generator holds (0 included).
C3_SaveContinueRestores ==
  (last.op = "continueGame" /\ last.prev = "save")
    => /\ data = last.was.dataBefore
       /\ NextValue(rng) = NextValue(last.was.rngBefore)

\* C4: after any state-changing core operation has completed, the snapshot
\* last written by save() equals the in-memory session state and its rngState
\* equals the live RNG state.
C4_SnapshotCurrent ==
  CoreOpDone => storage = data /\ data.rngState = rng

\* C5: each completed applyTravelDay or applyRestDay increases day by exactly
\* 1 and leaves miles no less than before the call.
C5_DayStepsMilesGrow ==
  last.op \in {"applyTravelDay", "applyRestDay"}
    => data.day = last.day0 + 1 /\ data.miles >= last.miles0

\* C6: every party member's health is in [0,5], and health 0 implies status
\* "dead", whichever component changed health last.
C6_HealthClamp ==
  \A i \in DOMAIN data.party :
    /\ data.party[i].health \in 0 .. 5
    /\ data.party[i].health = 0 => data.party[i].status = "dead"

\* C7: death is absorbing: a member who is dead stays dead with health 0
\* through every step of the session (a continueGame loads another document
\* and is not a step of it).
C7_DeathAbsorbing ==
  [][ last'.op # "continueGame"
        => \A i \in DOMAIN data.party :
             data.party[i].status = "dead"
               => data.party'[i].status = "dead" /\ data.party'[i].health = 0 ]_vars

\* C8: money and every inventory quantity are never negative.
C8_NoNegativeStock ==
  /\ data.money >= 0
  /\ \A item \in DOMAIN data.inventory : data.inventory[item] >= 0

\* C9: rollForDay for a day that is already rolled returns the record the
\* first call stored, appends no log line and consumes no draw, also when the
\* two calls overlap.
C9_RollIdempotent ==
  (last.op = "rollForDay" /\ last.first # {})
    => /\ \A x \in last.first : last.ret = x.rec
       /\ data.weather.today = last.ret
       /\ data.log = last.logBefore
       /\ rng = last.rngBefore

\* C9 witness: the party detours for two days as the first call of a run, so
\* both rest days ask for the weather of day 1 while weather.json is still
\* on its way; the second of them has just been answered from the record
C9_Witness ==
  /\ calls = 1
  /\ last.op = "rollForDay" /\ last.first # {}
  /\ Len(tasks) = 2
  /\ \A i \in 1 .. 2 : tasks[i].kind = "rest" /\ tasks[i].today = last.day

\* C10: tickAndMaybeAcquire invoked again for a day it has already processed
\* decrements nothing, makes no acquire roll, and leaves conditions, history
\* and the RNG state as they were.
C10_TickIdempotent ==
  (last.op = "tickAndMaybeAcquire" /\ last.again)
    => data.status = last.before /\ rng = last.rngBefore

\* ------------------------------------------------------------------------
\* Replay: two sessions, each in a process of its own, started from one seed
\* and given the same calls of the core in the same order.  Both load the
\* same catalogs; when each fetch is answered is up to each process.
\* ------------------------------------------------------------------------
\* seed of the replayed game
ReplaySeeds == { Word(0, 42) }

\* how many calls are replayed
MaxReplayOps == 2

ReplayInit ==
  /\ seed0 \in ReplaySeeds
  /\ insts = [i \in {"a", "b"} |-> RNGCtor(seed0)]
  /\ outs = [i \in {"a", "b"} |-> NoOut]
  /\ calls = 0
  /\ Offstage
  /\ IsGame([StartNewGame(CtorGame, seed0) EXCEPT !.last = [op |-> "startNewGame"]])
  /\ twin = [StartNewGame(CtorGame, seed0) EXCEPT !.last = [op |-> "startNewGame"]]

\* the same call made on both sessions, each once its last awaited call has
\* answered: first and second are the sessions after the call
Both(first, second) ==
  /\ Idle(Game) /\ Idle(twin)
  /\ ~session.open /\ ~twin.session.open
  /\ calls < MaxReplayOps
  /\ Becomes(first)
  /\ twin' = second
  /\ calls' = calls + 1
  /\ UNCHANGED <<insts, outs, seed0, loader, hunt>>

TravelOf(g) == CallDay(g, "travel", TRUE)

RestOf(g) == CallDay(g, "rest", TRUE)

BothTravelDay == Both(TravelOf(Game), TravelOf(twin))

BothRestDay == Both(RestOf(Game), RestOf(twin))

BothMaybeTriggerEvent == Both(CallEvent(Game), CallEvent(twin))

\* the same choice made in both sessions, which show the same stage
BothChoose ==
  /\ Idle(Game) /\ Idle(twin)
  /\ session.open /\ twin.session.open
  /\ FindStage(twin.session) = FindStage(session)
  /\ calls < MaxReplayOps
  /\ \E k \in 1 .. Len(FindStage(session).choices) :
       \E after \in {[s \in {Game, twin} |->
                        ChooseBody(s, FindStage(session).choices[k].id)]} :
         \E first \in {after[Game]}, second \in {after[twin]} :
           /\ Becomes(first)
           /\ twin' = second
  /\ calls' = calls + 1
  /\ UNCHANGED <<insts, outs, seed0, loader, hunt>>

BothTryMethod ==
  /\ Idle(Game) /\ Idle(twin)
  /\ ~session.open /\ ~twin.session.open
  /\ calls < MaxReplayOps
  /\ \E k \in 1 .. Len(Landmarks), m \in Methods :
       \E after \in {[s \in {Game, twin} |-> TryMethodBody(s, Landmarks[k], m)]} :
         \E first \in {after[Game]}, second \in {after[twin]} : Both(first, second)

\* the next continuation of the second session runs
TwinRunTask ==
  /\ ~Settled(twin)
  /\ twin' = StepTask(twin)
  /\ UNCHANGED <<rngVars, loader, hunt, rng, data, storage, tasks, cat, session, seen, last>>

\* a fetch of the first session is answered with the catalog
Arrive(which) == Settle(which, {"ok"})

\* a fetch of the second session is answered with the catalog
TwinArrive(which) ==
  /\ Settled(twin)
  /\ twin.cat[which] = "loading"
  /\ twin' = [twin EXCEPT !.cat[which] = "ok"]
  /\ UNCHANGED <<rngVars, loader, hunt, rng, data, storage, tasks, cat, session, seen, last>>

ArriveWeather == Arrive("weather")

ArriveStatus == Arrive("status")

ArriveEvents == Arrive("events")

TwinArriveWeather == TwinArrive("weather")

TwinArriveStatus == TwinArrive("status")

TwinArriveEvents == TwinArrive("events")

ReplayNext ==
  \/ BothTravelDay \/ BothRestDay \/ BothMaybeTriggerEvent \/ BothChoose \/ BothTryMethod
  \/ RunTask \/ TwinRunTask
  \/ ArriveWeather \/ ArriveStatus \/ ArriveEvents
  \/ TwinArriveWeather \/ TwinArriveStatus \/ TwinArriveEvents

SpecReplay == ReplayInit /\ [][ReplayNext]_vars

\* the session state a replay has to reproduce
SessionState(d) ==
  [day |-> d.day, miles |-> d.miles, money |-> d.money, inventory |-> d.inventory,
   party |-> d.party, conditions |-> d.status.conditions, weather |-> d.weather,
   flags |-> d.flags, log |-> d.log]

\* C2: two sessions started with the same seed and driven by the same
\* sequence of core operations over the same catalogs hold identical session
\* state and identical RNG state once each has completed the operations: the
\* outcome depends on nothing but the session state and the draws.
C2_ReplayExact ==
  (tasks = <<>> /\ twin.tasks = <<>>)
    => SessionState(data) = SessionState(twin.data) /\ rng = twin.rng

\* ------------------------------------------------------------------------
\* The status lifecycle over many days: a session that only rests and
\* ticks, over either diseases.json
\* ------------------------------------------------------------------------
StatusSeeds == { Word(0, 42), Word(0, 7), Word(37588, 34315) }

\* how many days and ticks one such run has
MaxStatusOps == 6

StatusInit ==
  /\ seed0 \in StatusSeeds
  /\ insts = [i \in {"a", "b"} |-> RNGCtor(seed0)]
  /\ outs = [i \in {"a", "b"} |-> NoOut]
  /\ calls = 0
  /\ Offstage
  /\ \E file \in {"authored", "crowded"} :
       IsGame([StartNewGame(CtorGame, seed0) EXCEPT !.last = [op |-> "startNewGame"],
                                                     !.cat.diseases = file])
  /\ twin = CtorGame

StatusClient(g) ==
  /\ Idle(Game)
  /\ calls < MaxStatusOps
  /\ Becomes(g)
  /\ calls' = calls + 1
  /\ UNCHANGED <<insts, outs, seed0, loader, hunt, twin>>

\* await applyRestDay(game)
DayOfRest == StatusClient(CallDay(Game, "rest", TRUE))

\* await tickAndMaybeAcquire(game)
TickAlone == StatusClient(CallTick(Game))

StatusNext == DayOfRest \/ TickAlone \/ RunTask \/ LoadWeather \/ LoadStatus

SpecStatus == StatusInit /\ [][StatusNext]_vars

\* C11: after every tickAndMaybeAcquire the number of active conditions is at
\* most maxConcurrent and no two active instances share a condition id, over
\* any sequence of days from a session that starts with no conditions.
C11_ConcurrencyCap ==
  /\ Len(data.status.conditions) <= Config(cat).maxConcurrent
  /\ \A i, j \in 1 .. Len(data.status.conditions) :
       data.status.conditions[i].id = data.status.conditions[j].id => i = j

\* C11 witness: a tick found as many conditions in force as may be, all with
\* days to go, and so made no acquire roll
C11_Witness ==
  /\ last.op = "tickAndMaybeAcquire"
  /\ Len(last.before.conditions) = Config(cat).maxConcurrent
  /\ Len(data.status.conditions) = Config(cat).maxConcurrent
  /\ last.recovered = {}
  /\ rng = last.rngBefore

\* the catalog entry of condition id
ConditionOf(c, id) ==
  LET cs == Config(c).conditions
  IN  cs[CHOOSE k \in 1 .. Len(cs) : cs[k].id = id]

\* C12: a condition with cooldownDays = c > 0 that last ended on day E is not
\* acquired on a day T with T - E < c, the day it recovered on included, and
\* no condition is acquired before its minDay.
C12_CooldownRespected ==
  last.op = "tickAndMaybeAcquire"
    => \A id \in last.acquired :
         /\ last.day >= ConditionOf(cat, id).minDay
         /\ ConditionOf(cat, id).cooldownDays > 0
              => /\ id \notin last.recovered
                 /\ last.day - last.before.history[id] >= ConditionOf(cat, id).cooldownDays

\* ------------------------------------------------------------------------
\* Hazard crossings: a party that arrives at a landmark with a hazard, with
\* or without money and food, and tries methods on it
\* ------------------------------------------------------------------------
HazardSeeds == { Word(0, 42) }

\* how many attempts one such run has
MaxHazardOps == 2

\* the hazard kinds tryMethod knows
HAZARD_KINDS == {"river", "mud", "snow", "geese", "beaver"}

\* every landmark with a hazard
AllCrossings == Landmarks \o Crossings

\* the landmark with this id
LandmarkOf(id) ==
  AllCrossings[CHOOSE k \in 1 .. Len(AllCrossings) : AllCrossings[k].id = id]

HazardInit ==
  /\ seed0 \in HazardSeeds
  /\ insts = [i \in {"a", "b"} |-> RNGCtor(seed0)]
  /\ outs = [i \in {"a", "b"} |-> NoOut]
  /\ calls = 0
  /\ Offstage
  /\ \E broke \in BOOLEAN :
       IsGame(Save([StartNewGame(CtorGame, seed0) EXCEPT
                      !.last = [op |-> "startNewGame"],
                      !.data.money = IF broke THEN 0 ELSE @,
                      !.data.inventory.food = IF broke THEN 0 ELSE @]))
  /\ twin = CtorGame

HazardClient(g) ==
  /\ Idle(Game)
  /\ calls < MaxHazardOps
  /\ Becomes(g)
  /\ calls' = calls + 1
  /\ UNCHANGED <<insts, outs, seed0, loader, hunt, twin>>

\* tryMethod(game, landmark, methodId) from the crossing modal; "swim" is a
\* method id no hazard has
AttemptCrossing ==
  \E k \in 1 .. Len(AllCrossings), m \in Methods \cup {"swim"} :
    HazardClient(TryMethodBody(Game, AllCrossings[k], m))

HazardNext == AttemptCrossing \/ RunTask \/ LoadWeather \/ LoadStatus

SpecHazard == HazardInit /\ [][HazardNext]_vars

\* the last call was tryMethod on a hazard of a kind the resolver knows
TriedKnown ==
  /\ last.op = "tryMethod"
  /\ LandmarkOf(last.landmark).hazard.kind \in HAZARD_KINDS

\* C13: on a hazard of any kind and in any session state, money 0 and food 0
\* included, tryMethod with service or detour returns resolved:true and the
\* landmark is no longer blocked; tryMethod with wait returns resolved:false.
C13_ServiceDetourResolve ==
  TriedKnown
    => /\ last.method \in {"service", "detour"}
            => last.ret.resolved /\ data.flags.atLandmarkId = None
       /\ last.method = "wait" => ~last.ret.resolved

\* C13 witness: a party with no money and no food has paid for the service
C13_Witness ==
  /\ TriedKnown
  /\ last.method = "service"
  /\ last.was.dataBefore.money = 0 /\ last.was.dataBefore.inventory.food = 0
  /\ last.ret.resolved

\* the hazard state a tryMethod call found: the stored one, or the authored
\* one when the landmark had none stored
FoundHazard(d, id) ==
  IF d.flags.hazardState[id].kind = None THEN LandmarkOf(id).hazard
  ELSE d.flags.hazardState[id]

\* severity b is no greater than severity a and not below the floor
Eased(a, b) ==
  CASE a.kind = "river" -> b.depthFt <= a.depthFt /\ b.depthFt >= 5
    [] a.kind = "mud" -> b.badness <= a.badness /\ b.badness >= 0
    [] a.kind = "snow" -> b.driftFt <= a.driftFt /\ b.driftFt >= 5
    [] a.kind = "geese" -> b.flock <= a.flock
    [] a.kind = "beaver" -> b.gapFt <= a.gapFt /\ b.gapFt >= 2

\* wait left the landmark blocked and its severity eased
WaitEased ==
  (TriedKnown /\ last.method = "wait")
    => /\ data.flags.atLandmarkId = last.landmark
       /\ Eased(FoundHazard(last.was.dataBefore, last.landmark),
                data.flags.hazardState[last.landmark])

\* C14: a wait costs exactly one day (day is one greater once the call has
\* completed), leaves the landmark blocked, and leaves each severity
\* parameter no greater than before and no lower than its floor.
C14_WaitCostsADay ==
  /\ WaitEased
  /\ (TriedKnown /\ last.method = "wait") => data.day = last.was.dataBefore.day + 1

\* C15: every day of a hazard delay is resolved as a rest day before the
\* tryMethod call completes: a method that spends N days leaves day at D + N
\* and no rest day still to be resolved.
C15_DelayDaysResolved ==
  last.op = "tryMethod"
    => /\ data.day = last.was.dataBefore.day + last.spent
       /\ \A i \in 1 .. Len(tasks) : tasks[i].kind # "rest"

\* C16: after tryMethod returns resolved:true flags.atLandmarkId is absent,
\* and after it returns resolved:false it is the landmark's id.
C16_BlockedIffUnresolved ==
  last.op = "tryMethod"
    => data.flags.atLandmarkId = (IF last.ret.resolved THEN None ELSE last.landmark)

\* C16 witness: a party blocked at a landmark by a failed attempt clears it
\* with the next attempt, a drive that succeeds
C16_Witness ==
  /\ last.op = "tryMethod" /\ last.method = "drive" /\ last.ret.resolved
  /\ last.was.dataBefore.flags.atLandmarkId = last.landmark
  /\ data.flags.atLandmarkId = None

\* the last call was tryMethod, on a hazard the resolver knows, with a method
\* id that is not in the menu
TriedUnknown == TriedKnown /\ last.method \notin Methods

\* C21: tryMethod with a method id that is not in the hazard kind's menu
\* returns resolved:false, spends no day, money or inventory, consumes no RNG
\* draw and leaves the landmark blocked.
C21_UnknownMethodNeutral ==
  TriedUnknown
    => /\ ~last.ret.resolved /\ ~last.ret.crossed
       /\ last.spent = 0
       /\ data.day = last.was.dataBefore.day
       /\ data.money = last.was.dataBefore.money
       /\ data.inventory = last.was.dataBefore.inventory
       /\ data.party = last.was.dataBefore.party
       /\ data.log = last.was.dataBefore.log
       /\ rng = last.was.rngBefore
       /\ data.flags.atLandmarkId = last.landmark

\* C21 witness: the unknown method was tried on a landmark the party was not
\* parked at, after an earlier attempt had already drawn from the generator
C21_Witness ==
  /\ TriedUnknown
  /\ last.was.dataBefore.flags.atLandmarkId # last.landmark
  /\ rng # RNGCtor(seed0)

\* Number(v || d): 0 and a missing field give d
OrNumber(v, d) == IF v = 0 THEN d ELSE v

\* estimateSuccess(hz, method) for a hazard of any kind, in ten-thousandths;
\* 0 stands for null
Estimate(hz, method) ==
  CASE method \notin {"drive", "prep"} -> 0
    [] hz.kind = "river" -> EstimateSuccess(hz, method)
    [] hz.kind = "mud" /\ method = "drive" ->
         Clamp(2000 + 60 * (100 - Clamp(hz.badness, 0, 100)), 500, 9000)
    [] hz.kind = "mud" -> Clamp(5500 + 35 * (100 - Clamp(hz.badness, 0, 100)), 2000, 9500)
    [] hz.kind = "snow" /\ method = "drive" ->
         Clamp(IF Max(5, OrNumber(hz.driftFt, 20)) < 15 THEN 4500 ELSE 2500, 500, 7000)
    [] hz.kind = "snow" -> Clamp(9000 - 200 * (Max(5, OrNumber(hz.driftFt, 20)) - 10), 3000, 9500)
    [] hz.kind = "geese" /\ method = "drive" ->
         Clamp(7500 - 50 * Max(5, OrNumber(hz.flock, 60)), 2000, 9000)
    [] hz.kind = "geese" -> Clamp(9200 - 25 * Max(5, OrNumber(hz.flock, 60)), 4000, 9700)
    [] hz.kind = "beaver" /\ method = "drive" ->
         Clamp(IF Max(2, OrNumber(hz.gapFt, 8)) < 6 THEN 5500 ELSE 2500, 1000, 8000)
    [] hz.kind = "beaver" -> Clamp(7500 - 500 * (Max(2, OrNumber(hz.gapFt, 8)) - 6), 2500, 9000)
    [] OTHER -> 0

\* rate(p): the grade listMethods shows
Rate(p) == IF p = 0 THEN "" ELSE IF p >= 7500 THEN "Good" ELSE IF p >= 5000 THEN "Fair" ELSE "Poor"

\* the hazard state tryMethod found when it was called: the stored one, or
\* the authored hazard on the first visit
HazardAtCall ==
  IF last.was.dataBefore.flags.hazardState[last.landmark].kind = None
  THEN LandmarkOf(last.landmark).hazard
  ELSE last.was.dataBefore.flags.hazardState[last.landmark]

\* the last call was tryMethod with drive or prep on a hazard of a known kind
TriedOdds == TriedKnown /\ last.method \in {"drive", "prep"}

\* widths of rivers, in feet
RiverWidths == {80, 150, 250, 350}

\* the outcome is that of the draw at the RNG position of the call against
\* estimateSuccess(hazard state at the call, method)
RollIsFirstDraw ==
  TriedOdds
    => last.ret.resolved
         = DrawLt(NextValue(last.was.rngBefore), Estimate(HazardAtCall, last.method), 10000)

\* driving through a river 1 ft deep with a slow current, of any width
ShallowSlowDrive ==
  \A w \in RiverWidths :
    Estimate([kind |-> "river", depthFt |-> 10, widthFt |-> w, current |-> "slow"],
             "drive") >= 7000

\* C26: for drive and prep on every hazard kind, tryMethod returns
\* resolved:true exactly when the draw at the RNG position of the call is
\* below estimateSuccess(hazard state at the call, method); a river 1 ft
\* deep with a slow current has p >= 0.70 for drive
C26_RollMatchesEstimate == RollIsFirstDraw /\ ShallowSlowDrive

\* the part of it about the draw, bribing the geese left aside
RollMatchesButGeesePrep ==
  (TriedOdds /\ ~(HazardAtCall.kind = "geese" /\ last.method = "prep"))
    => last.ret.resolved
         = DrawLt(NextValue(last.was.rngBefore), Estimate(HazardAtCall, last.method), 10000)

\* bribing the geese: the draw after the one for the bread decides
GeesePrepSecondDraw ==
  (TriedOdds /\ HazardAtCall.kind = "geese" /\ last.method = "prep")
    => last.ret.resolved
         = DrawLt(NextValue(RNGAdvance(last.was.rngBefore)),
                  Estimate(HazardAtCall, last.method), 10000)

\* ------------------------------------------------------------------------
\* Events over a stretch of the journey: a session somewhere along the
\* trail, asked for an event day after day and answering the ones it gets
\* ------------------------------------------------------------------------
EventSeeds == { Word(0, 42), Word(37588, 34315) }

\* how many calls of the event engine one such run has
MaxEventOps == 7

\* where along the trail the stretch begins: day and miles (in half miles)
Waypoints == { [day |-> 1, miles |-> 0], [day |-> 22, miles |-> 500],
               [day |-> 30, miles |-> 1300], [day |-> 45, miles |-> 1300],
               [day |-> 30, miles |-> 1400] }

\* what the party carries there: well stocked, well stocked but for
\* medicine, fed but without money or bullets, or down to nothing
Loads ==
  { [money |-> 5000, food |-> 100, bullets |-> 60, medicine |-> 3],
    [money |-> 5000, food |-> 100, bullets |-> 60, medicine |-> 0],
    [money |-> 0, food |-> 100, bullets |-> 0, medicine |-> 0],
    [money |-> 0, food |-> 10, bullets |-> 0, medicine |-> 0] }

EventInit ==
  /\ seed0 \in EventSeeds
  /\ insts = [i \in {"a", "b"} |-> RNGCtor(seed0)]
  /\ outs = [i \in {"a", "b"} |-> NoOut]
  /\ calls = 0
  /\ Offstage
  /\ \E at \in Waypoints, has \in Loads, marks \in {{}, {"met_trader"}} :
       IsGame(Save([StartNewGame(CtorGame, seed0) EXCEPT
                      !.last = [op |-> "startNewGame"],
                      !.data.day = at.day, !.data.miles = at.miles,
                      !.data.money = has.money,
                      !.data.inventory.food = has.food,
                      !.data.inventory.bullets = has.bullets,
                      !.data.inventory.medicine = has.medicine,
                      !.data.flags.marks = marks]))
  /\ twin = CtorGame

EventClient(g) ==
  /\ Idle(Game)
  /\ calls < MaxEventOps
  /\ Becomes(g)
  /\ calls' = calls + 1
  /\ UNCHANGED <<insts, outs, seed0, loader, hunt, twin>>

\* await maybeTriggerEvent(game), as the travel screen does after each day
AskForEvent == ~session.open /\ EventClient(CallEvent(Game))

\* renderStage(session, game) by the event modal
RenderStage == session.open /\ EventClient(RenderStageBody(Game))

\* choose(session, choiceId, game) on a choice the modal shows, enabled or not
AnswerEvent ==
  /\ session.open
  /\ \E k \in 1 .. Len(FindStage(session).choices) :
       EventClient(ChooseBody(Game, FindStage(session).choices[k].id))

EventNext == AskForEvent \/ RenderStage \/ AnswerEvent \/ RunTask \/ LoadEvents

SpecEvents == EventInit /\ [][EventNext]_vars

\* maybeTriggerEvent has just returned a session
GotSession == last.op = "maybeTriggerEvent" /\ ~last.threw /\ last.ret # 0

\* the gates of `when` that state d passes
Passes(w, d) ==
  /\ "mileGte" \in DOMAIN w => d.miles >= w.mileGte
  /\ "mileLt" \in DOMAIN w => d.miles < w.mileLt
  /\ "minDay" \in DOMAIN w => d.day >= w.minDay
  /\ "maxDay" \in DOMAIN w => d.day <= w.maxDay
  /\ "ifFlag" \in DOMAIN w => w.ifFlag \in d.flags.marks
  /\ "ifFlagMissing" \in DOMAIN w => w.ifFlagMissing \notin d.flags.marks
  /\ "foodLt" \in DOMAIN w => d.inventory.food < w.foodLt
  /\ "bulletsGte" \in DOMAIN w => d.inventory.bullets >= w.bulletsGte
  /\ "medicineGte" \in DOMAIN w => d.inventory.medicine >= w.medicineGte

\* C17: maybeTriggerEvent never returns a session for an event that is
\* ineligible in the current state, whatever its weight: every gate of the
\* event's `when` (miles, day, flags, inventory) holds in the state it was
\* called in.
C17_OnlyEligibleEvents ==
  GotSession => Passes(EVENTS[last.ret].when, last.dataBefore)

\* C17 witness: a session for a light event was returned while an event ten
\* times its weight was in the catalog but gated out
C17_Witness ==
  /\ GotSession
  /\ EVENTS[last.ret].weight <= 5
  /\ \E k \in 1 .. Len(EVENTS) :
       EVENTS[k].weight = 50 /\ ~Passes(EVENTS[k].when, last.dataBefore)

\* C18: while evtCooldownDays > 0 maybeTriggerEvent decrements it by exactly
\* 1, returns null and draws nothing; when it returns a session it has set
\* evtCooldownDays to a value in 3..6, and at least 3 calls have returned null
\* since the previous session.
C18_EventCooldown ==
  (last.op = "maybeTriggerEvent" /\ ~last.threw)
    => /\ last.cooldownBefore > 0
            => /\ data.flags.evtCooldownDays = last.cooldownBefore - 1
               /\ last.ret = 0
               /\ rng = last.rngBefore
       /\ last.ret # 0
            => /\ data.flags.evtCooldownDays \in 3 .. 6
               /\ last.quiet = -1 \/ last.quiet >= 3

\* C18 witness: a second session, after the calls that counted the cooldown
\* of the first one down
C18_Witness == GotSession /\ last.quiet >= 3

\* the choice of stage st with this id
ChoiceOf(st, id) == st.choices[CHOOSE k \in 1 .. Len(st.choices) : st.choices[k].id = id]

\* the requirements of choice ch (moneyGte, inventory <item>Gte) that state
\* d does not meet
Unmet(ch, d) ==
  \/ "moneyGte" \in DOMAIN ch.requires /\ d.money < ch.requires.moneyGte
  \/ \E k \in 1 .. Len(ch.requires.inventory) :
       d.inventory[ch.requires.inventory[k].item] < ch.requires.inventory[k].gte

\* the stage with this id in event ev, the first stage when there is none
StageShown(ev, id) ==
  IF \E k \in 1 .. Len(EVENTS[ev].stages) : EVENTS[ev].stages[k].id = id
  THEN EVENTS[ev].stages[CHOOSE k \in 1 .. Len(EVENTS[ev].stages) :
                            EVENTS[ev].stages[k].id = id]
  ELSE EVENTS[ev].stages[1]

\* the last call was choose on a choice whose requirements were unmet
ChoseUnmet ==
  /\ last.op = "choose"
  /\ Unmet(ChoiceOf(StageShown(last.sessionBefore.event, last.sessionBefore.stageId),
                    last.choice),
           last.was.dataBefore)

\* C19: choose on a choice whose requirements are unmet returns done:false
\* and leaves the session state (money, inventory, party, day, miles, flags,
\* morale), the RNG state and session.stageId unchanged; only a note is added
\* to the session's logs.
C19_UnmetChoiceNoOp ==
  ChoseUnmet
    => /\ ~last.done
       /\ data = last.was.dataBefore
       /\ rng = last.was.rngBefore
       /\ storage = last.storageBefore
       /\ session = [last.sessionBefore EXCEPT !.notes = @ + 1]

\* C19 witness: a party without money has picked the choice that costs money
C19_Witness ==
  /\ ChoseUnmet
  /\ last.choice = "buy"
  /\ data.money = 0

\* the last call was renderStage or choose on a session whose stageId names
\* no stage of its event
Dangling ==
  /\ last.op \in {"renderStage", "choose"}
  /\ ~last.threw
       => \A k \in 1 .. Len(EVENTS[last.sessionBefore.event].stages) :
            EVENTS[last.sessionBefore.event].stages[k].id # last.sessionBefore.stageId

\* C20: on a session whose stageId names no stage of its event, renderStage
\* and choose work on the event's first stage and do not throw; so after a
\* choose whose goto names a stage that does not exist.
C20_DanglingStageFallsBack ==
  Dangling
    => /\ ~last.threw
       /\ last.stage = EVENTS[last.sessionBefore.event].stages[1].id
       /\ last.op = "renderStage"
            => last.choices =
                 [k \in 1 .. Len(EVENTS[last.sessionBefore.event].stages[1].choices) |->
                    EVENTS[last.sessionBefore.event].stages[1].choices[k].id]
       /\ last.op = "choose"
            => \E k \in 1 .. Len(EVENTS[last.sessionBefore.event].stages[1].choices) :
                 EVENTS[last.sessionBefore.event].stages[1].choices[k].id = last.choice

\* C20 witness: a choice sent the session to a stage that does not exist, the
\* modal rendered it, and the player has answered
C20_Witness ==
  /\ Dangling
  /\ last.op = "choose"
  /\ last.sessionBefore.stageId = "haggle"

\* ------------------------------------------------------------------------
\* Specification of the catalog loaders alone: weather.js and status.js
\* keep the promise of the load in flight, eventEngine.js and hunting.js
\* await loadJSON in the call itself
\* ------------------------------------------------------------------------
Catalogs == {"weather", "status", "events", "animals"}

\* the modules that keep _loadPromise
Guarded == {"weather", "status"}

\* the operation that needs each catalog
OpOf(which) ==
  CASE which = "weather" -> "rollForDay" [] which = "status" -> "tickAndMaybeAcquire"
    [] which = "events" -> "maybeTriggerEvent" [] OTHER -> "createHuntSession"

\* bound: calls made on the four operations together
MaxLoadCalls == 4

\* how a fetch ends: the file as authored, a rejection of loadJSON (network
\* error, HTTP status, invalid JSON), or JSON of another shape (an object
\* where the module reads an array, or the reverse)
Outcomes == {"ok", "rejected", "misshapen"}

\* the modules as first imported: _patterns, _config, EVENTS and ANIMALS null
FreshLoader ==
  [table   |-> [c \in Catalogs |-> "none"],
   promise |-> [c \in Catalogs |-> "none"],
   fetches |-> [c \in Catalogs |-> 0],
   callers |-> <<>>]

Caller(which, state, used) == [op |-> OpOf(which), which |-> which, state |-> state, used |-> used]

\* weather.js / status.js ensureLoaded() up to its await
EnsureLoadedCall(l, which) ==
  IF l.table[which] # "none"
  THEN [l EXCEPT !.callers = Append(@, Caller(which, "returned", l.table[which]))]
  ELSE IF l.promise[which] = "none"
  THEN [l EXCEPT !.promise[which] = "pending",
                 !.fetches[which] = @ + 1,
                 !.callers = Append(@, Caller(which, "waiting", "none"))]
  ELSE [l EXCEPT !.callers = Append(@, Caller(which, "waiting", "none"))]

\* ensureEvents() / getAnimals() up to the await of loadJSON; with EVENTS
\* set to something that is no array, maybeTriggerEvent throws at
\* EVENTS.filter
OwnLoadCall(l, which) ==
  IF l.table[which] = "none"
  THEN [l EXCEPT !.fetches[which] = @ + 1,
                 !.callers = Append(@, Caller(which, "fetching", "none"))]
  ELSE IF l.table[which] = "junk"
  THEN [l EXCEPT !.callers = Append(@, Caller(which, "threw", "none"))]
  ELSE [l EXCEPT !.callers = Append(@, Caller(which, "returned", l.table[which]))]

\* the table the .then / .catch of the load promise leaves: weather falls
\* back on FALLBACK for a rejection and for anything but {patterns: [...]};
\* status takes the built-in config for a rejection and its own defaults
\* for the fields a file lacks
TableAfter(which, outcome) ==
  CASE outcome = "ok" -> "file"
    [] outcome = "misshapen" /\ which = "status" -> "defaults"
    [] OTHER -> "builtin"

\* the load promise settles and every call awaiting it goes on
SharedSettled(l, which, outcome) ==
  [l EXCEPT !.table[which] = TableAfter(which, outcome),
            !.promise[which] = "settled",
            !.callers = [i \in DOMAIN @ |->
                           IF @[i].which = which /\ @[i].state = "waiting"
                           THEN [@[i] EXCEPT !.state = "returned",
                                             !.used = TableAfter(which, outcome)]
                           ELSE @[i]]]

\* the loadJSON awaited by call i settles: EVENTS is assigned before its
\* shape is looked at, ANIMALS only after raw.map went through
OwnSettled(l, i, outcome) ==
  LET which == l.callers[i].which
  IN  CASE outcome = "ok" ->
             [l EXCEPT !.table[which] = "file",
                       !.callers[i] = [@ EXCEPT !.state = "returned", !.used = "file"]]
        [] outcome = "misshapen" /\ which = "events" ->
             [l EXCEPT !.table[which] = "junk", !.callers[i].state = "threw"]
        [] OTHER -> [l EXCEPT !.callers[i].state = "threw"]

LoadInit ==
  /\ seed0 = Word(0, 42)
  /\ insts = [i \in {"a", "b"} |-> RNGCtor(seed0)]
  /\ outs = [i \in {"a", "b"} |-> NoOut]
  /\ calls = 0
  /\ GameIdle
  /\ loader = FreshLoader
  /\ hunt = NoHunt

\* rollForDay, tickAndMaybeAcquire, maybeTriggerEvent or createHuntSession
\* is called, whether or not earlier calls have answered
StartCall ==
  /\ Len(loader.callers) < MaxLoadCalls
  /\ \E which \in Catalogs :
       loader' = IF which \in Guarded THEN EnsureLoadedCall(loader, which)
                 ELSE OwnLoadCall(loader, which)
  /\ UNCHANGED <<rngVars, gameVars, hunt>>

\* the fetch behind a load promise ends
SharedLoadSettles ==
  /\ \E which \in Guarded, outcome \in Outcomes :
       /\ loader.promise[which] = "pending"
       /\ loader' = SharedSettled(loader, which, outcome)
  /\ UNCHANGED <<rngVars, gameVars, hunt>>

\* the fetch one call started for itself ends
OwnLoadSettles ==
  /\ \E i \in DOMAIN loader.callers, outcome \in Outcomes :
       /\ loader.callers[i].state = "fetching"
       /\ loader' = OwnSettled(loader, i, outcome)
  /\ UNCHANGED <<rngVars, gameVars, hunt>>

LoadNext == StartCall \/ SharedLoadSettles \/ OwnLoadSettles

SpecLoad == LoadInit /\ [][LoadNext]_vars

\* C22: each catalog (weather patterns, status config, events, animals) is
\* fetched at most once per process, overlapping first calls included
C22_FetchedAtMostOnce == \A c \in Catalogs : loader.fetches[c] <= 1

\* the part of it that weather.js and status.js keep
GuardedFetchedOnce == \A c \in Guarded : loader.fetches[c] <= 1

\* two first calls on one guarded catalog overlapped
GuardedOverlap ==
  \E i, j \in DOMAIN loader.callers :
    /\ i < j
    /\ loader.callers[i].which \in Guarded
    /\ loader.callers[j].which = loader.callers[i].which
    /\ loader.callers[i].state = "waiting" /\ loader.callers[j].state = "waiting"

\* C23: when loading a catalog fails, the operation that needed it does not
\* throw; it completes on a built-in table, and so does every later call
C23_LoadFailureFallsBack ==
  \A i \in DOMAIN loader.callers :
    /\ loader.callers[i].state # "threw"
    /\ loader.callers[i].state = "returned" => loader.callers[i].used # "none"

\* the part of it that weather.js and status.js keep
GuardedNeverThrows ==
  \A i \in DOMAIN loader.callers :
    loader.callers[i].which \in Guarded
      => /\ loader.callers[i].state # "threw"
         /\ loader.callers[i].state = "returned"
              => loader.callers[i].used \in {"file", "builtin", "defaults"}

\* ------------------------------------------------------------------------
\* Hunting (systems/hunting.js). Times are in tenths of a second, meat in
\* half pounds, the spawn timer in units of 1 / (10 * 2^32) s kept as
\* <<multiples of 2^16, rest>>
\* ------------------------------------------------------------------------
DEFAULTS == [durationSec |-> 30, carryCapLb |-> 100, shotCooldownMs |-> 200]

Animal(id, w, h, speed, yield2, spawnWeight) ==
  [id |-> id, w |-> w, h |-> h, speed |-> speed, yieldLb2 |-> yield2,
   spawnWeight |-> spawnWeight]

\* an animals.json as authored: a grouse of 2.5 lb, a deer, a moose
ANIMALS ==
  << Animal("grouse", 28, 20, 160, 5, 3),
     Animal("deer", 64, 44, 120, 120, 3),
     Animal("moose", 96, 64, 80, 300, 2) >>

\* options of a short hunt, without a carry cap as the screen passes them
\* and with a small one; an option is a sequence of no or one value
HuntOpts ==
  { [width |-> 640, height |-> 360, durationSec |-> <<5>>, carryCapLb |-> <<>>],
    [width |-> 640, height |-> 360, durationSec |-> <<5>>, carryCapLb |-> <<60>>] }

\* opt ?? dflt
OrDefault(opt, dflt) == IF opt = <<>> THEN dflt ELSE opt[1]

\* min + (max - min) * r with spawnEveryMin 0.8 and spawnEveryMax 1.6
NextSpawn(u) == << 8 * H16 + 8 * Hi(u) + (8 * Lo(u)) \div H16, (8 * Lo(u)) % H16 >>

TimerLess(t, dt) == << t[1] - dt * H16, t[2] >>

TimerPlus(a, b) == << a[1] + b[1] + (a[2] + b[2]) \div H16, (a[2] + b[2]) % H16 >>

\* spawnIn <= 0
TimerRanOut(t) == t[1] < 0 \/ (t[1] = 0 /\ t[2] = 0)

\* game.rng.state after two, three, four and five draws
Advance2(s) == RNGAdvance(RNGAdvance(s))
Advance3(s) == RNGAdvance(Advance2(s))
Advance4(s) == RNGAdvance(Advance3(s))
Advance5(s) == RNGAdvance(Advance4(s))

\* createHuntSession(game, opts) once getAnimals() has answered: the state
\* object, and the first spawn scheduled with one draw
CreateHuntSession(g, opts) ==
  [g |-> [g EXCEPT !.rng = RNGAdvance(g.rng),
                   !.last = [op |-> "createHuntSession"]],
   h |-> [opened |-> TRUE, W |-> Max(320, opts.width), H |-> Max(180, opts.height),
          durationSec |-> Max(5, OrDefault(opts.durationSec, DEFAULTS.durationSec)),
          carryCapLb |-> Max(10, OrDefault(opts.carryCapLb, DEFAULTS.carryCapLb)),
          animals |-> <<>>,
          timeLeft |-> 10 * Max(5, OrDefault(opts.durationSec, DEFAULTS.durationSec)),
          bulletsStart |-> g.data.inventory.bullets,
          bulletsUsed |-> 0,
          meatTotal2 |-> 0,
          killsById |-> [k \in 1 .. Len(ANIMALS) |-> 0],
          lastShotAt |-> 0,
          ended |-> FALSE,
          spawnIn |-> NextSpawn(RNGOutput(RNGAdvance(g.rng))),
          now |-> 1000]]

\* the animal spawnOne pushes, given its draws for the species and the side;
\* x is in tenths of a pixel
Spawned(h, species, fromLeft) ==
  [species |-> species,
   x10 |-> IF fromLeft THEN -10 * ANIMALS[species].w ELSE 10 * (h.W + ANIMALS[species].w),
   vx |-> IF fromLeft THEN ANIMALS[species].speed ELSE -ANIMALS[species].speed]

\* m.x > -m.w - 8 && m.x < W + m.w + 8
OnScreen(h, m) ==
  /\ m.x10 > -10 * (ANIMALS[m.species].w + 8)
  /\ m.x10 < 10 * (h.W + ANIMALS[m.species].w + 8)

RECURSIVE Culled(_, _, _)
\* state.animals.filter(...): the animals of ms, from the i-th on, still on
\* screen
Culled(h, ms, i) ==
  IF i > Len(ms) THEN <<>>
  ELSE (IF OnScreen(h, ms[i]) THEN <<ms[i]>> ELSE <<>>) \o Culled(h, ms, i + 1)

\* the animals moved by dt and the ones off screen culled
Moved(h, ms, dt) ==
  Culled(h, [k \in 1 .. Len(ms) |-> [ms[k] EXCEPT !.x10 = @ + ms[k].vx * dt]], 1)

SpawnWeights == [k \in 1 .. Len(ANIMALS) |-> ANIMALS[k].spawnWeight]

\* update(game, dt) when the spawn timer runs out: spawnOne draws the
\* species, the side, y and the bob phase, nextSpawn draws the delay
UpdateSpawning(g, h, dt, species, side, delay) ==
  [g |-> [g EXCEPT !.rng = Advance5(g.rng), !.last = [op |-> "update"]],
   h |-> [h EXCEPT !.timeLeft = Max(0, @ - dt),
                   !.spawnIn = TimerPlus(TimerLess(@, dt), NextSpawn(delay)),
                   !.animals = Moved(h, Append(@,
                       Spawned(h, FirstSpent(SpawnWeights, species, SumWeights(SpawnWeights, 1), 1, 0),
                               DrawLt(side, 1, 2))), dt),
                   !.now = @ + 100 * dt]]

\* update(game, dt)
Update(g, h, dt) ==
  IF h.ended THEN [g |-> [g EXCEPT !.last = [op |-> "update"]], h |-> [h EXCEPT !.now = @ + 100 * dt]]
  ELSE IF TimerRanOut(TimerLess(h.spawnIn, dt))
  THEN UpdateSpawning(g, h, dt, RNGOutput(RNGAdvance(g.rng)), RNGOutput(Advance2(g.rng)),
                      RNGOutput(Advance5(g.rng)))
  ELSE [g |-> [g EXCEPT !.last = [op |-> "update"]],
        h |-> [h EXCEPT !.timeLeft = Max(0, @ - dt),
                        !.spawnIn = TimerLess(@, dt),
                        !.animals = Moved(h, @, dt),
                        !.now = @ + 100 * dt]]

Area(m) == ANIMALS[m.species].w * ANIMALS[m.species].h

\* the hitscan: of the animals under the point, the first of smallest area
TargetIndex(h, under) ==
  CHOOSE i \in under :
    \A j \in under : Area(h.animals[i]) < Area(h.animals[j])
                       \/ (Area(h.animals[i]) = Area(h.animals[j]) /\ i <= j)

\* what shoot observed, for the record of the call
ShotRecord(g, h, nowMs, ret) ==
  [op |-> "shoot", ret |-> ret, bulletsBefore |-> g.data.inventory.bullets,
   usedBefore |-> h.bulletsUsed, endedBefore |-> h.ended,
   since |-> nowMs - h.lastShotAt, meatBefore |-> h.meatTotal2, rngBefore |-> g.rng]

\* shoot on a hit: the animal leaves, its yield is added, and one draw
\* decides whether two pounds are wasted
ShootHit(g, h, nowMs, t, messy) ==
  [g |-> [g EXCEPT !.rng = RNGAdvance(g.rng),
                   !.data.inventory.bullets = Max(0, @ - 1),
                   !.last = ShotRecord(g, h, nowMs, TRUE)],
   h |-> [h EXCEPT !.bulletsUsed = @ + 1,
                   !.lastShotAt = nowMs,
                   !.animals = Without(@, t),
                   !.meatTotal2 = IF DrawLt(messy, 15, 100)
                                  THEN Max(0, @ + Max(0, ANIMALS[h.animals[t].species].yieldLb2) - 4)
                                  ELSE @ + Max(0, ANIMALS[h.animals[t].species].yieldLb2),
                   !.killsById[h.animals[t].species] = @ + 1,
                   !.now = nowMs]]

\* a missed shot that costs nothing
ShootMiss_Free(g, h, nowMs) ==
  [g |-> [g EXCEPT !.last = ShotRecord(g, h, nowMs, FALSE)],
   h |-> [h EXCEPT !.lastShotAt = nowMs, !.now = nowMs]]

\* a missed shot costs its bullet
ShootMiss(g, h, nowMs) ==
  [g |-> [g EXCEPT !.data.inventory.bullets = Max(0, @ - 1),
                   !.last = ShotRecord(g, h, nowMs, FALSE)],
   h |-> [h EXCEPT !.bulletsUsed = @ + 1, !.lastShotAt = nowMs, !.now = nowMs]]

\* shoot(game, x, y, nowMs), with under the animals whose box holds (x, y)
Shoot(g, h, under, nowMs) ==
  IF h.ended \/ g.data.inventory.bullets <= 0
     \/ nowMs - h.lastShotAt < DEFAULTS.shotCooldownMs
  THEN [g |-> [g EXCEPT !.last = ShotRecord(g, h, nowMs, FALSE)],
        h |-> [h EXCEPT !.now = nowMs]]
  ELSE IF under = {} THEN ShootMiss(g, h, nowMs)
  ELSE ShootHit(g, h, nowMs, TargetIndex(h, under), RNGOutput(RNGAdvance(g.rng)))

\* Math.round of a number of half pounds
RoundLb(x2) == RoundDiv(x2, 2)

\* a summary that rounds the spoiled meat down
Summary_Floor(h, carry2) ==
  [durationSec |-> h.durationSec, carryCapLb |-> h.carryCapLb,
   bulletsUsed |-> h.bulletsUsed,
   meatTotal |-> RoundLb(h.meatTotal2),
   meatTaken |-> RoundLb(carry2),
   spoiled |-> Max(0, h.meatTotal2 - carry2) \div 2,
   killsById |-> h.killsById]

\* the summary end() returns, given carry = min(meatTotal, carryCapLb)
Summary(h, carry2) ==
  [durationSec |-> h.durationSec, carryCapLb |-> h.carryCapLb,
   bulletsUsed |-> h.bulletsUsed,
   meatTotal |-> RoundLb(h.meatTotal2),
   meatTaken |-> RoundLb(carry2),
   spoiled |-> RoundLb(Max(0, h.meatTotal2 - carry2)),
   killsById |-> h.killsById]

\* end()
End(g, h) ==
  [g |-> [g EXCEPT !.last = [op |-> "end", ret |-> Summary(h, Min(h.meatTotal2, 2 * h.carryCapLb)),
                             meatBefore |-> h.meatTotal2]],
   h |-> [h EXCEPT !.ended = TRUE]]

\* ------------------------------------------------------------------------
\* Specification of one hunt: the screen opens a session, advances it frame
\* by frame, shoots and ends it (ui/HuntingScreen.js)
\* ------------------------------------------------------------------------
HuntSeeds == {Word(0, 42)}

\* bound: shoot and end calls made on the session
MaxHuntOps == 4

\* bullets in the wagon when the hunt begins
BulletsAtStart == {0, 2}

\* dt of a frame, in tenths of a second
FrameDts == {5}

HuntInit ==
  /\ seed0 \in HuntSeeds
  /\ insts = [i \in {"a", "b"} |-> RNGCtor(seed0)]
  /\ outs = [i \in {"a", "b"} |-> NoOut]
  /\ calls = 0
  /\ Offstage
  /\ \E n \in BulletsAtStart :
       IsGame(Save([StartNewGame(CtorGame, seed0) EXCEPT
                      !.last = [op |-> "startNewGame"],
                      !.data.inventory.bullets = n]))
  /\ twin = CtorGame

\* the session and the game after a call on the hunting engine
HuntBecomes(r) ==
  /\ Becomes(r.g)
  /\ hunt' = r.h
  /\ UNCHANGED <<insts, outs, seed0, loader, twin>>

\* createHuntSession(game, {width, height}) answers
OpenHunt ==
  /\ ~hunt.opened
  /\ \E opts \in HuntOpts : HuntBecomes(CreateHuntSession(Game, opts))
  /\ UNCHANGED calls

\* one frame of the loop: update(game, dt), until the time is up or finish()
\* has cancelled the loop
Frame ==
  /\ hunt.opened
  /\ hunt.timeLeft > 0 /\ ~hunt.ended
  /\ \E dt \in FrameDts : HuntBecomes(Update(Game, hunt, dt))
  /\ UNCHANGED calls

\* a click or a key: shoot(game, x, y, performance.now()), the point lying in
\* the boxes of none, one or two of the animals of the session (their y bobs
\* by a sine that is not computed here)
AttemptShoot ==
  /\ hunt.opened
  /\ calls < MaxHuntOps
  /\ \E delay \in {0, 100, 200}, under \in SUBSET (1 .. Len(hunt.animals)) :
       /\ Cardinality(under) <= 2
       /\ HuntBecomes(Shoot(Game, hunt, under, hunt.now + delay))
  /\ calls' = calls + 1

\* the hunt is ended: end()
Finish ==
  /\ hunt.opened
  /\ calls < MaxHuntOps
  /\ HuntBecomes(End(Game, hunt))
  /\ calls' = calls + 1

HuntNext == OpenHunt \/ Frame \/ AttemptShoot \/ Finish

SpecHunt == HuntInit /\ [][HuntNext]_vars

Shot == hunt.opened /\ last.op = "shoot"

\* C24: shoot() with no bullets returns false and leaves bullets at 0; one
\* shoot call lowers bullets by at most 1, by exactly 1 when there are
\* bullets, the cooldown has elapsed and the session has not ended, hit or
\* miss; bullets never goes below 0 and bulletsUsed counts the bullets the
\* session removed
C24_ShootTakesOneBullet ==
  hunt.opened
    => /\ data.inventory.bullets >= 0
       /\ hunt.bulletsUsed = hunt.bulletsStart - data.inventory.bullets
       /\ Shot =>
            /\ last.bulletsBefore = 0 => ~last.ret /\ data.inventory.bullets = 0
            /\ last.bulletsBefore - data.inventory.bullets \in {0, 1}
            /\ (last.bulletsBefore > 0 /\ last.since >= DEFAULTS.shotCooldownMs
                  /\ ~last.endedBefore)
                 => data.inventory.bullets = last.bulletsBefore - 1

\* the last bullet was spent on a miss, and the shot after it was refused
C24_Witness ==
  /\ Shot
  /\ last.bulletsBefore = 0 /\ last.since >= DEFAULTS.shotCooldownMs /\ ~last.endedBefore
  /\ hunt.bulletsUsed = 2
  /\ hunt.meatTotal2 > 0 /\ Len(hunt.animals) > 0

Ended == hunt.opened /\ last.op = "end"

\* C25: end() returns integers with meatTaken = min(meatTotal, carryCapLb)
\* and meatTaken + spoiled = meatTotal; above the cap meatTaken is the cap
\* and spoiled is meatTotal - carryCapLb
C25_EndSplitsMeat ==
  Ended
    => /\ last.ret.meatTaken \in Nat /\ last.ret.spoiled \in Nat
       /\ last.ret.meatTaken = Min(last.ret.meatTotal, last.ret.carryCapLb)
       /\ last.ret.meatTaken + last.ret.spoiled = last.ret.meatTotal
       /\ last.ret.meatTotal > last.ret.carryCapLb
            => /\ last.ret.meatTaken = last.ret.carryCapLb
               /\ last.ret.spoiled = last.ret.meatTotal - last.ret.carryCapLb
       /\ hunt.ended

\* a hunt ended with more meat than the wagon carries, half a pound over a
\* whole number
C25_Witness ==
  /\ Ended
  /\ last.meatBefore > 2 * last.ret.carryCapLb
  /\ last.meatBefore % 2 = 1
  /\ last.ret.spoiled > 0

\* the last call was choose, on an enabled choice
ChoseEnabled == last.op = "choose" /\ ~last.threw /\ last.applied

\* the choice the last choose call took
ChoiceTaken ==
  ChoiceOf(StageShown(last.sessionBefore.event, last.sessionBefore.stageId), last.choice)

\* the positions in a choice's effects of those that read a target
TargetingEffects(ch) ==
  {k \in 1 .. Len(ch.effects) : ch.effects[k].type \in {"health", "status", "mortality", "roll"}}

\* the last choose call applied one health or status effect, and nothing
\* else that touches the party: that effect
ChoseOneTarget ==
  /\ ChoseEnabled
  /\ Cardinality(TargetingEffects(ChoiceTaken)) = 1
  /\ \A k \in TargetingEffects(ChoiceTaken) : ChoiceTaken.effects[k].type \in {"health", "status"}

TheTargetingEffect ==
  ChoiceTaken.effects[CHOOSE k \in TargetingEffects(ChoiceTaken) : TRUE]

\* member m after a health or status effect has been applied to it
Touched(eff, m) ==
  IF eff.type = "health" THEN [m EXCEPT !.health = Clamp(@ + eff.delta, 0, 5)]
  ELSE IF eff.status # "" THEN [m EXCEPT !.status = eff.status] ELSE m

\* the party of before with the effect applied to the members at the
\* positions in whom, and to nobody else
PartyTouching(before, eff, whom) ==
  [i \in DOMAIN before |-> IF i \in whom THEN Touched(eff, before[i]) ELSE before[i]]

\* a literal member id reaches that member, when alive, and nobody else
LiteralTargetHit ==
  (ChoseOneTarget /\ TheTargetingEffect.target \notin {"family", "all", "child", "random", None})
    => \A i \in DOMAIN last.was.dataBefore.party :
         (last.was.dataBefore.party[i].id = TheTargetingEffect.target
            /\ IsAlive(last.was.dataBefore.party[i]))
           => data.party = PartyTouching(last.was.dataBefore.party, TheTargetingEffect, {i})

\* "family" and "all" reach every living member
FamilyTargetHit ==
  (ChoseOneTarget /\ TheTargetingEffect.target \in {"family", "all"})
    => data.party = PartyTouching(last.was.dataBefore.party, TheTargetingEffect,
                                  {i \in DOMAIN last.was.dataBefore.party :
                                     IsAlive(last.was.dataBefore.party[i])})

\* "child" reaches one living child or infant when there is one
ChildTargetHit ==
  (ChoseOneTarget /\ TheTargetingEffect.target = "child"
     /\ \E i \in DOMAIN last.was.dataBefore.party : IsLivingChild(last.was.dataBefore.party[i]))
    => \E i \in DOMAIN last.was.dataBefore.party :
         /\ IsLivingChild(last.was.dataBefore.party[i])
         /\ data.party = PartyTouching(last.was.dataBefore.party, TheTargetingEffect, {i})

\* C27: an effect whose target is a literal member id is applied to exactly
\* that member when alive and to no other; "family"/"all" resolves to every
\* living member and "child" to one living child or infant when one exists
C27_TargetsResolved == LiteralTargetHit /\ FamilyTargetHit /\ ChildTargetHit

\* ------------------------------------------------------------------------
\* Specification of the day resolution: travel days and rest days of
\* sessions that start anywhere along the trail
\* ------------------------------------------------------------------------
\* a party some days in: worn down, bereaved, and with nobody left
Ailing(m, health) ==
  [m EXCEPT !.health = health, !.status = IF health = 0 THEN "dead" ELSE @]

WornParty == [i \in 1 .. 6 |-> Ailing(NewParty[i], <<5, 4, 3, 2, 1, 1>>[i])]

BereavedParty == [i \in 1 .. 6 |-> Ailing(NewParty[i], <<3, 2, 0, 0, 0, 0>>[i])]

LostParty == [i \in 1 .. 6 |-> Ailing(NewParty[i], 0)]

\* one member brought to health 0 by an event's health effect, which leaves
\* the status as it was
StrickenParty == [NewParty EXCEPT ![3].health = 0]

DayParties == {NewParty, WornParty, BereavedParty, LostParty, StrickenParty}

\* pounds of food in the wagon when the day begins
DayFoods == {0, 7, 100}

DaySeeds == { Word(0, 42), Word(0, 7) }

DayInit ==
  /\ seed0 \in DaySeeds
  /\ insts = [i \in {"a", "b"} |-> RNGCtor(seed0)]
  /\ outs = [i \in {"a", "b"} |-> NoOut]
  /\ calls = 0
  /\ Offstage
  /\ \E party \in DayParties, food \in DayFoods, pace \in Paces, rations \in Rations :
       IsGame([Save([StartNewGame(CtorGame, seed0) EXCEPT
                       !.data.party = party, !.data.inventory.food = food,
                       !.data.pace = pace, !.data.rations = rations])
                 EXCEPT !.last = [op |-> "startNewGame"]])
  /\ twin = CtorGame

DayNext == TravelDay \/ RestDay \/ RunTask \/ LoadWeather \/ LoadStatus

SpecDays == DayInit /\ [][DayNext]_vars

\* the step that runs what applyTravelDay / applyRestDay do after their awaits
DayResolves ==
  /\ ~Settled(Game)
  /\ tasks[FirstRunnable(Game)].pc = "apply"
  /\ tasks' = Without(tasks, FirstRunnable(Game))
  /\ last'.op \in {"applyTravelDay", "applyRestDay"}

\* round(living members x rations pounds per person x appetite multiplier),
\* the appetite multiplier being weather hungerMult x status hungerMult
FoodNeed ==
  LET of(w, s) ==
        RoundDiv(CountAlive(Game) * RATIONS_LB(data.rations) * w.hungerMult * s.hungerNum,
                 2 * 100 * s.den)
  IN  of(GetModifiersForToday(Game), GetAggregatedModifiers(Game))

FedAsNeeded ==
  /\ last'.ret.foodConsumed = Min(FoodNeed, data.inventory.food)
  /\ data'.inventory.food = data.inventory.food - last'.ret.foodConsumed
  /\ last'.ret.starvation <=> FoodNeed > data.inventory.food

NobodyToFeed ==
  CountAlive(Game) = 0 =>
    /\ FoodNeed = 0
    /\ last'.ret.foodConsumed = 0
    /\ data'.party = data.party
    /\ data'.day = data.day + 1

LostPartyDay ==
  /\ last.op \in {"applyTravelDay", "applyRestDay"}
  /\ data.party = LostParty
  /\ data.day = 2

\* the call whose day is being resolved is applyTravelDay
ResolvesTravel == tasks[FirstRunnable(Game)].kind = "travel"

\* what the overlays add: weather healthDelta + status healthDelta
OverlayHealth ==
  GetModifiersForToday(Game).healthDelta + GetAggregatedModifiers(Game).healthDelta

TravelHealth ==
  (CASE data.pace = "steady" -> 0 [] data.pace = "strenuous" -> -1
     [] data.pace = "grueling" -> -2)
  + (IF FoodNeed > data.inventory.food THEN -2 ELSE 0) + OverlayHealth

RestHealth ==
  (IF FoodNeed > data.inventory.food THEN -2
   ELSE IF data.rations \in {"normal", "generous"} THEN 1 ELSE 0) + OverlayHealth

ReturnsHealthDelta ==
  last'.ret.healthDelta = IF ResolvesTravel THEN TravelHealth ELSE RestHealth

\* every member whose status is not dead moves by the delta, once, within
\* [0,5]; the dead keep the health they had
DeltaAppliedOnce ==
  \A i \in DOMAIN data.party :
    data'.party[i].health =
      IF data.party[i].status = "dead" THEN data.party[i].health
      ELSE Clamp(data.party[i].health + last'.ret.healthDelta, 0, 5)

\* C29: the healthDelta returned by a travel day equals pace penalty (steady
\* 0, strenuous -1, grueling -2) + (-2 if shortage) + weather healthDelta +
\* status healthDelta; that of a rest day equals (-2 if shortage, else +1
\* when rations are normal or generous, else 0) + weather healthDelta +
\* status healthDelta; that delta is applied exactly once to every living
\* member, clamped to [0,5], and to no dead member.
C29_HealthDelta == [][DayResolves => ReturnsHealthDelta /\ DeltaAppliedOnce]_vars

\* C29 witness: a grueling day without enough food took 4 or more from every
\* living member; one is left at health 1, the dead among them stayed as
\* they were
C29_Witness ==
  /\ last.op = "applyTravelDay"
  /\ data.pace = "grueling"
  /\ last.ret.starvation
  /\ last.ret.healthDelta = -4
  /\ data.party[1].health = 1
  /\ data.party[1].status # "dead"
  /\ data.party[6].status = "dead"
  /\ data.day = 2

\* a day of rest on full rations left members at health 5 where they were
\* and raised the others by 1
RestedAtFullHealth ==
  /\ last.op = "applyRestDay"
  /\ last.ret.healthDelta = 1
  /\ data.party[1].health = 5
  /\ data.party[2].health = 5
  /\ data.party[3].health = 4
  /\ data.day = 2

\* an overlay took part in the delta of a day of rest
OverlaysCounted ==
  /\ last.op = "applyRestDay"
  /\ ~last.ret.starvation
  /\ data.rations = "meager"
  /\ last.ret.healthDelta < 0

\* what of the session state the effects without a target write
Told(d) ==
  [money |-> d.money, inventory |-> d.inventory, day |-> d.day, miles |-> d.miles,
   morale |-> d.morale, marks |-> d.flags.marks]

\* t after one effect without a target; an unknown type leaves t as it is
After(t, eff) ==
  CASE eff.type = "inventory" ->
         IF eff.item = None THEN t ELSE [t EXCEPT !.inventory[eff.item] = @ + eff.delta]
    [] eff.type = "money" -> [t EXCEPT !.money = Max(0, @ + eff.delta)]
    [] eff.type = "time" -> [t EXCEPT !.day = @ + Max(0, eff.days)]
    [] eff.type = "distance" -> [t EXCEPT !.miles = Max(0, @ + eff.miles)]
    [] eff.type = "mapFlag" -> IF eff.key = None THEN t ELSE [t EXCEPT !.marks = @ \cup {eff.key}]
    [] eff.type = "morale" -> [t EXCEPT !.morale = Clamp(@ + eff.delta, -5, 5)]
    [] OTHER -> t

RECURSIVE InOrder(_, _, _)
\* where the effects from k on, applied one after the other as declared, may
\* take the states ts: a roll puts the effects of one of its options in its
\* own place
InOrder(ts, effects, k) ==
  LET branch(eff) ==
        IF eff.options = <<>> THEN ts
        ELSE UNION {InOrder(ts, eff.options[j].effects, 1) : j \in 1 .. Len(eff.options)}
      step(eff) == IF eff.type = "roll" THEN branch(eff) ELSE {After(t, eff) : t \in ts}
  IN  IF k > Len(effects) THEN ts ELSE InOrder(step(effects[k]), effects, k + 1)

RECURSIVE Untargeted(_)
\* no effect among these, the options of their rolls included, reads a target
Untargeted(effects) ==
  \A k \in 1 .. Len(effects) :
    /\ effects[k].type \notin {"health", "status", "mortality"}
    /\ \A j \in 1 .. Len(effects[k].options) : Untargeted(effects[k].options[j].effects)

EffectsInOrder ==
  (ChoseEnabled /\ Untargeted(ChoiceTaken.effects))
    => Told(data) \in InOrder({Told(last.was.dataBefore)}, ChoiceTaken.effects, 1)

GotoFollowed ==
  ChoseEnabled =>
    /\ last.done <=> ChoiceTaken.goto \in {None, "end"}
    /\ ~last.done =>
         /\ session.open
         /\ session.event = last.sessionBefore.event
         /\ session.stageId = ChoiceTaken.goto

\* the campfire dare: one money line, two more lines from either option of its
\* roll, none from the effect of unknown type, one from the morale after it
DareLogged ==
  (ChoseEnabled /\ last.choice = "dare") => data.log = last.was.dataBefore.log + 4

\* C30: choose on an enabled choice applies the choice's effects in
\* declaration order (the effects of a roll's chosen branch in place, before
\* the next declared effect), then sets stageId to goto unless goto is absent
\* or "end", and returns done:true exactly when goto is absent or "end"; an
\* effect of unknown type changes no game state and does not stop the
\* effects after it from being applied.
C30_EffectsInOrder == EffectsInOrder /\ GotoFollowed /\ DareLogged

\* C30 witness: the dare took all the money there was, its roll then paid
\* 10 dollars back, and the morale effect declared after the effect of
\* unknown type was applied; the session went on to the stage named by goto
C30_Witness ==
  /\ ChoseEnabled
  /\ last.choice = "dare"
  /\ last.was.dataBefore.money = 5000
  /\ data.money = 1000
  /\ data.morale = last.was.dataBefore.morale + 1
  /\ ~last.done
  /\ session.stageId = "embers"

\* the other option of the dare's roll
DareLost ==
  /\ ChoseEnabled
  /\ last.choice = "dare"
  /\ data.inventory.food = last.was.dataBefore.inventory.food - 5
  /\ data.morale = -4

\* a choice without goto ended the event
SleptOn == ChoseEnabled /\ last.choice = "sleep" /\ last.done

\* maybeTriggerEvent was called with the cooldown at 0 in a state where no
\* event of the catalog passes its gates
NoneEligible ==
  /\ last.op = "maybeTriggerEvent"
  /\ ~last.threw
  /\ last.cooldownBefore = 0
  /\ \A k \in 1 .. Len(EVENTS) : ~Passes(EVENTS[k].when, last.dataBefore)

\* C31: when the cooldown is 0 and no event is eligible, maybeTriggerEvent
\* sets flags.evtCooldownDays to 1, returns null without throwing, consumes
\* no RNG draw and appends no log line.
C31_NoneEligibleRetry ==
  NoneEligible =>
    /\ data.flags.evtCooldownDays = 1
    /\ last.ret = 0
    /\ rng = last.rngBefore
    /\ data.log = last.logBefore
    /\ ~session.open

\* C31 witness: past the last mile of the thin ice, the trader met, food in
\* the wagon and no medicine: a call found nothing to offer and set the retry
C31_Witness == NoneEligible /\ data.flags.evtCooldownDays = 1 /\ data.miles = 1400

\* the last call was a drive or a prep, on a hazard the resolver knows, that
\* did not get the party across
FailedAttempt ==
  /\ TriedKnown
  /\ last.method \in {"drive", "prep"}
  /\ ~last.ret.resolved

\* C32: every failed drive or prep attempt, on every hazard kind (river, mud,
\* snow, geese, beaver), costs exactly 1 day and leaves the landmark blocked.
C32_FailedAttemptCostsADay ==
  FailedAttempt => last.spent = 1 /\ data.flags.atLandmarkId = last.landmark

\* the same of every failed attempt but the prep on geese
FailedCostsADayButGeesePrep ==
  (FailedAttempt /\ ~(FoundHazard(last.was.dataBefore, last.landmark).kind = "geese"
                        /\ last.method = "prep"))
    => last.spent = 1 /\ data.flags.atLandmarkId = last.landmark

\* a failed prep on geese spends no day
GeesePrepFailsFree ==
  (FailedAttempt /\ FoundHazard(last.was.dataBefore, last.landmark).kind = "geese"
     /\ last.method = "prep")
    => last.spent = 0 /\ data.flags.atLandmarkId = last.landmark

\* failed attempts of both methods on the kinds reached
FailedOn(kind, method) ==
  /\ FailedAttempt
  /\ FoundHazard(last.was.dataBefore, last.landmark).kind = kind
  /\ last.method = method

Ticked == last.op = "tickAndMaybeAcquire"

\* positions in conds of the instances with more than one day to go
Lasting(conds) == {i \in 1 .. Len(conds) : conds[i].daysRemaining > 1}

\* how many of the first i instances of conds have more than one day to go
Rank(conds, i) == Cardinality({j \in Lasting(conds) : j <= i})

\* after a tick every instance has a day or more to go; those that had more
\* than one are still there, in order, with one day less, followed by at
\* most one instance acquired by this tick
TickLowersByOne ==
  Ticked =>
    /\ \A k \in 1 .. Len(data.status.conditions) :
         data.status.conditions[k].daysRemaining >= 1
    /\ \A i \in Lasting(last.before.conditions) :
         data.status.conditions[Rank(last.before.conditions, i)]
           = [last.before.conditions[i] EXCEPT !.daysRemaining = @ - 1]
    /\ Len(data.status.conditions) - Cardinality(Lasting(last.before.conditions)) \in {0, 1}
    /\ {data.status.conditions[k].id :
          k \in (Cardinality(Lasting(last.before.conditions)) + 1)
                  .. Len(data.status.conditions)} = last.acquired

\* the instances that came to 0 are the ones reported as recovered, and
\* their ids, and no others, are stamped with the day of the tick
TickStampsTheEnded ==
  Ticked =>
    /\ last.recovered =
         {last.before.conditions[i].id :
            i \in (1 .. Len(last.before.conditions)) \ Lasting(last.before.conditions)}
    /\ \A id \in CondIds :
         data.status.history[id] =
           IF id \in last.recovered THEN last.day ELSE last.before.history[id]

\* the instance first in line is of condition id, and as many ticks as it
\* has days to go are still to come
FirstInForce(id) ==
  /\ Idle(Game)
  /\ data.status.conditions # <<>>
  /\ data.status.conditions[1].id = id
  /\ calls + data.status.conditions[1].daysRemaining <= MaxStatusOps

\* every call of the run has been made and has completed
RanToTheEnd ==
  /\ calls = MaxStatusOps
  /\ tasks = <<>>
  /\ \A which \in {"weather", "status"} : cat[which] # "loading"

\* in a run that is played to its end, an instance in force is sent off as
\* recovered
EveryConditionEnds ==
  (<>[]RanToTheEnd)
    => \A id \in CondIds : FirstInForce(id) ~> (Ticked /\ id \in last.recovered)

\* C33: every active condition has daysRemaining >= 1 after each
\* tickAndMaybeAcquire; each tick lowers the daysRemaining of every condition
\* that was active before it by exactly 1; a condition is removed at the tick
\* where it reaches 0, and at that tick history[id].lastEndDay is set to the
\* current day.  Hence a condition acquired with duration d is removed at the
\* d-th tick after its acquisition, and every condition eventually ends.
C33_ConditionsRunOut == [](TickLowersByOne /\ TickStampsTheEnded) /\ EveryConditionEnds

\* C33 witness: a tick sent one condition off as recovered and left another
\* in force with a day less
C33_Witness ==
  /\ Ticked
  /\ last.recovered # {}
  /\ Lasting(last.before.conditions) # {}
  /\ data.status.history[CHOOSE id \in last.recovered : TRUE] = data.day

\* ------------------------------------------------------------------------
\* The stored hazard state and the landmark's own hazard
\* ------------------------------------------------------------------------
\* the last call was tryMethod on a landmark whose hazard state was stored
\* by an earlier call
TriedStored ==
  /\ TriedKnown
  /\ last.was.dataBefore.flags.hazardState[last.landmark].kind # None

\* no call has written to the hazard object of a landmark
TemplatesKept == cat.landmarks = AuthoredHazards

\* the first access stores the landmark's hazard, which a method no hazard
\* has leaves as it is
FirstAccessCopies ==
  (TriedKnown /\ ~TriedStored /\ last.method = "swim")
    => data.flags.hazardState[last.landmark] = AuthoredHazards[last.landmark]

\* a later access hands out the stored state and not a new copy
StoredStateReturned ==
  (TriedStored /\ last.method = "swim")
    => data.flags.hazardState[last.landmark]
         = last.was.dataBefore.flags.hazardState[last.landmark]

\* drive and prep roll against the odds of the stored state
StoredStateDecides ==
  (TriedStored /\ TriedOdds
     /\ ~(LandmarkOf(last.landmark).hazard.kind = "geese" /\ last.method = "prep"))
    => last.ret.resolved
         = DrawLt(NextValue(last.was.rngBefore),
                  Estimate(last.was.dataBefore.flags.hazardState[last.landmark], last.method),
                  10000)

\* C34: getHazardState copies the landmark's hazard into flags.hazardState on
\* the first access and hands out that stored state on every later one;
\* tryMethod writes to the stored state only, so no sequence of calls
\* changes a landmark's hazard, and the next attempt rolls against the
\* severity a wait lowered
C34_StoredCopyOnly ==
  TemplatesKept /\ FirstAccessCopies /\ StoredStateReturned /\ StoredStateDecides

\* the mud of gumbo flats is driven through after a wait, on a draw that the
\* authored badness would have failed
C34_Witness ==
  /\ TriedStored
  /\ last.landmark = "gumbo_flats"
  /\ last.method = "drive"
  /\ last.was.dataBefore.flags.hazardState["gumbo_flats"].badness = 40
  /\ cat.landmarks["gumbo_flats"].badness = 60
  /\ last.ret.resolved
  /\ ~DrawLt(NextValue(last.was.rngBefore), Estimate(AuthoredHazards["gumbo_flats"], "drive"),
             10000)

\* ------------------------------------------------------------------------
\* The day counter
\* ------------------------------------------------------------------------
\* the step is a call of the core other than continueGame, or the
\* continuation of one
Advances == last'.op # "continueGame"

\* the last choose call took a choice whose only effect is a time effect
ChoseTime ==
  /\ ChoseEnabled
  /\ Len(ChoiceTaken.effects) = 1
  /\ ChoiceTaken.effects[1].type = "time"

\* the step is a choose call on a choice whose only effect is a time effect
LosesTime == calls' = calls + 1 /\ ChoseTime'

\* the only game state the step writes is the day, by max(0, days), one log
\* line and the generator state that save() records: no food eaten, no health changed, no weather rolled, no
\* condition ticked, no draw made and no day resolution called
OnlyDayMoves ==
  /\ data' = [data EXCEPT !.day = @ + Max(0, ChoiceTaken'.effects[1].days), !.log = @ + 1,
                          !.rngState = rng]
  /\ rng' = rng
  /\ tasks' = tasks
  /\ seen' = seen

\* C35: over day resolution, event effects and hazard methods the day
\* counter never decreases; a time effect adds max(0, days) to day and runs
\* no day resolution
C35_DayNeverDecreases ==
  [][(Advances => data'.day >= data.day) /\ (LosesTime => OnlyDayMoves)]_vars

\* turning back at the washout, a time effect of -2 days, leaves the day
\* where it was
C35_Witness ==
  /\ ChoseTime
  /\ ChoiceTaken.effects[1].days < 0
  /\ data.day = last.was.dataBefore.day
  /\ data.log = last.was.dataBefore.log + 1

\* a day resolution, a hazard method and a continuation of either have
\* moved the day on
DayMovedBy(op) == last.op = op /\ data.day > 1

\* ------------------------------------------------------------------------
\* The travel button of the travel screen (ui/TravelScreen.js)
\* ------------------------------------------------------------------------
\* how many clicks and answers the player gives in one run
MaxScreenOps == 3

\* where the wagon stands when the screen is mounted, in half miles
ScreenStarts == {0, 50}

ScreenSeeds == { Word(0, 42), Word(0, 7) }

\* landmarksCrossed(lms, from, to): the ids of the landmarks with
\* from < mile <= to
LandmarksCrossed(from, to) ==
  {AllCrossings[k].id : k \in {j \in 1 .. Len(AllCrossings) :
                                 AllCrossings[j].mile > from /\ AllCrossings[j].mile <= to}}

\* the landmark the handler opens: the first crossed one with a hazard
\* kind; every landmark of the catalog has one
LmToOpen(crossed) ==
  LET first == CHOOSE k \in 1 .. Len(AllCrossings) :
                 /\ AllCrossings[k].id \in crossed
                 /\ \A j \in 1 .. (k - 1) : AllCrossings[j].id \notin crossed
  IN  AllCrossings[first].id

ScreenInit ==
  /\ seed0 \in ScreenSeeds
  /\ insts = [i \in {"a", "b"} |-> RNGCtor(seed0)]
  /\ outs = [i \in {"a", "b"} |-> NoOut]
  /\ calls = 0
  /\ Offstage
  /\ \E at \in ScreenStarts :
       IsGame(Save([StartNewGame(CtorGame, seed0) EXCEPT
                      !.last = [op |-> "startNewGame"], !.data.miles = at]))
  /\ twin = CtorGame

ScreenClient(g) ==
  /\ calls < MaxScreenOps
  /\ Becomes(g)
  /\ calls' = calls + 1
  /\ UNCHANGED <<insts, outs, seed0, loader, hunt, twin>>

\* the click handler of btnTravel up to its await of maybeOpenEvent:
\* applyTravelDay is called and its promise kept as the summary, the
\* landmarks crossed are computed from the miles as they are now, one log
\* line each and the day's line are pushed, the game is saved and
\* maybeTriggerEvent is called
ClickBody(g) ==
  LET called == CallDay(g, "travel", FALSE)
      crossed == LandmarksCrossed(g.data.miles, called.data.miles)
      logged == Save([called EXCEPT !.data.log = @ + Cardinality(crossed) + 1])
  IN  [CallEvent(logged) EXCEPT
         !.seen.click = [pc |-> "event", crossed |-> crossed],
         !.last = [op |-> "travelClick", crossed |-> crossed,
                   was |-> [rngBefore |-> g.rng, dataBefore |-> g.data]]]

ClickTravel ==
  /\ Idle(Game)
  /\ ~session.open
  /\ seen.click.pc = "none"
  /\ ScreenClient(ClickBody(Game))

\* a choice clicked in the event modal
AnswerModal ==
  /\ Idle(Game)
  /\ session.open
  /\ \E k \in 1 .. Len(FindStage(session).choices) :
       ScreenClient(ChooseBody(Game, FindStage(session).choices[k].id))

\* the handler from the return of maybeOpenEvent to its end: with a landmark
\* crossed, flags.atLandmarkId is set, the game saved and onReachLandmark
\* called
ReachBody(g) ==
  LET parked ==
        IF g.seen.click.crossed = {} THEN g
        ELSE Save([g EXCEPT !.data.flags.atLandmarkId = LmToOpen(g.seen.click.crossed)])
  IN  [parked EXCEPT !.seen.click = NoClick,
                     !.last = [op |-> "clickDone", crossed |-> g.seen.click.crossed,
                               opened |-> g.seen.click.crossed # {}]]

AfterEvent ==
  /\ seen.click.pc = "event"
  /\ ~session.open
  /\ \A i \in 1 .. Len(tasks) : tasks[i].kind # "event"
  /\ Becomes(ReachBody(Game))
  /\ UNCHANGED <<insts, outs, seed0, calls, loader, hunt, twin>>

ScreenNext ==
  \/ ClickTravel \/ AnswerModal \/ AfterEvent
  \/ RunTask \/ LoadWeather \/ LoadStatus \/ LoadEvents

SpecScreen == ScreenInit /\ [][ScreenNext]_vars

\* the step is the click handler running up to its first await
Clicks == calls' = calls + 1 /\ last'.op = "travelClick"

\* the day has been resolved when the handler reads the miles: it has
\* moved the day on, and the landmarks reported are those between the miles
\* before and the miles after
ResolvedWhenRead ==
  /\ data'.day = data.day + 1
  /\ last'.crossed = LandmarksCrossed(data.miles, data'.miles)

\* no day resolution was unfinished when maybeTriggerEvent looked at the
\* cooldown and the eligible events
ResolvedWhenTriggered ==
  (last.op = "maybeTriggerEvent" /\ ~last.threw)
    => \A i \in 1 .. Len(tasks) : tasks[i].kind # "travel"

\* at the end of the handler every landmark the day passed was reported and
\* the party is parked at the one that was opened
ReachedAndParked ==
  (last.op = "clickDone" /\ \A i \in 1 .. Len(tasks) : tasks[i].kind # "travel")
    => /\ \A id \in LandmarkIds :
            (LandmarkOf(id).mile <= data.miles /\ LandmarkOf(id).mile > data.miles - 60)
              => id \in last.crossed
       /\ last.crossed # {} => data.flags.atLandmarkId = LmToOpen(last.crossed)

\* C36: in the travel action of the travel screen the day resolution has
\* completed before the handler computes the landmarks crossed, writes the
\* day's log line and saves, and before maybeTriggerEvent evaluates cooldown
\* and eligibility; every landmark with mile in (miles before, miles after]
\* is reported, and a crossed hazard landmark sets flags.atLandmarkId
C36_ResolvedBeforeReported ==
  [][Clicks => ResolvedWhenRead]_vars /\ [](ResolvedWhenTriggered /\ ReachedAndParked)

\* what the handler does instead: at its first await the day is as it was,
\* no landmark is reported, and the party is never parked
ClickReadsOldMiles ==
  last.op = "travelClick"
    => /\ data.day = last.was.dataBefore.day
       /\ data.miles = last.was.dataBefore.miles
       /\ last.crossed = {}
       /\ \E i \in 1 .. Len(tasks) : tasks[i].kind = "travel" /\ tasks[i].pc = "roll"

NeverParked == data.flags.atLandmarkId = None

\* the wagon has passed gumbo flats and the handler has ended
PassedUnreported ==
  /\ last.op = "clickDone"
  /\ data.miles >= 60
  /\ data.flags.atLandmarkId = None

\* ------------------------------------------------------------------------
\* The hunting screen: its frame loop and its End Hunt button
\* (ui/HuntingScreen.js)
\* ------------------------------------------------------------------------
\* finish(reason): the loop is cancelled, the session ended, the meat taken
\* added to the food, the day of the hunt noted, one line logged and the
\* game saved
FinishBody(g, h) ==
  LET ended == End(g, [h EXCEPT !.timeLeft = 0])
      summary == ended.g.last.ret
  IN  [g |-> Save([ended.g EXCEPT
                     !.data.inventory.food = Max(0, @ + summary.meatTaken),
                     !.data.flags.lastHuntDay = g.data.day,
                     !.data.log = @ + 1,
                     !.last = [op |-> "finish", ret |-> summary,
                               foodBefore |-> g.data.inventory.food,
                               endedBefore |-> h.ended]]),
       h |-> ended.h]

\* tick(): update, then finish() when the time is up or the bullets are
\* gone, and the next frame requested otherwise
FrameBody(g, h, dt) ==
  LET moved == Update(g, h, dt)
  IN  IF moved.h.timeLeft <= 0 \/ moved.g.data.inventory.bullets <= 0
      THEN FinishBody(moved.g, moved.h)
      ELSE moved

\* a frame of the loop, which runs until finish() cancels it
FrameTick ==
  /\ hunt.opened
  /\ ~hunt.ended
  /\ \E dt \in FrameDts : HuntBecomes(FrameBody(Game, hunt, dt))
  /\ UNCHANGED calls

\* a click on End Hunt, which stays on the screen after the summary is shown
ClickEnd ==
  /\ hunt.opened
  /\ calls < MaxHuntOps
  /\ HuntBecomes(FinishBody(Game, hunt))
  /\ calls' = calls + 1

HuntScreenNext == OpenHunt \/ FrameTick \/ AttemptShoot \/ ClickEnd

SpecHuntScreen == HuntInit /\ [][HuntScreenNext]_vars

\* the step is a run of finish()
Finishes == last'.op = "finish" /\ data' # data

\* the first finish() of the session adds the meat taken, the yield so far
\* up to the carry cap, and a later one adds nothing
AddedOnce ==
  data'.inventory.food
    = IF hunt.ended THEN data.inventory.food
      ELSE data.inventory.food + RoundLb(Min(hunt.meatTotal2, 2 * hunt.carryCapLb))

\* a shot on the ended session is refused and takes no bullet
ShotAfterEndRefused ==
  (Shot /\ last.endedBefore) => ~last.ret /\ data.inventory.bullets = last.bulletsBefore

\* C37: the meat taken from a hunting session is added to inventory.food
\* exactly once per session, whatever sequence of timer expiry, bullets
\* running out and End Hunt clicks occurs; ending early keeps the yield so
\* far, and after the end shoot() returns false and removes no bullet
C37_MeatAddedOnce == [][Finishes => AddedOnce]_vars /\ []ShotAfterEndRefused

\* the first finish() of a session adds the meat taken
FirstFinishAdds ==
  (last.op = "finish" /\ ~last.endedBefore)
    => data.inventory.food = last.foodBefore + last.ret.meatTaken

\* finish() has run on a session that had ended, with meat taken, and added
\* it again
AddedAgain ==
  /\ last.op = "finish"
  /\ last.endedBefore
  /\ last.ret.meatTaken > 0
  /\ data.inventory.food = last.foodBefore + last.ret.meatTaken

\* the loop has ended a session by itself: the time was up, or the bullets
\* were gone
EndedByLoop(bullets) ==
  last.op = "finish" /\ calls = 0 /\ data.inventory.bullets = bullets

\* ------------------------------------------------------------------------
\* The event modal: a session played to its end (ui/EventModal.js)
\* ------------------------------------------------------------------------
\* how many choices the player clicks in one run
MaxModalOps == 6

\* createSession(game, ev) on game g: the session opens at the first stage
\* of the event, with a child drawn for its text
CreateSession(g, ev) ==
  LET cast(c) ==
        [c.g EXCEPT !.session = [open |-> TRUE, event |-> ev,
                                 stageId |-> EVENTS[ev].stages[1].id,
                                 child |-> c.v, notes |-> 0],
                    !.last = [op |-> "createSession", ret |-> ev]]
  IN  cast(PickPartyMember(g))

\* the modal is shown a session on any event of the catalog, with the wagon
\* loaded in any of the ways
ModalInit ==
  /\ seed0 \in EventSeeds
  /\ insts = [i \in {"a", "b"} |-> RNGCtor(seed0)]
  /\ outs = [i \in {"a", "b"} |-> NoOut]
  /\ calls = 0
  /\ Offstage
  /\ \E ev \in 1 .. Len(EVENTS), has \in Loads :
       IsGame(CreateSession(Save([StartNewGame(CtorGame, seed0) EXCEPT
                                    !.cat.events = "ok",
                                    !.data.money = has.money,
                                    !.data.inventory.food = has.food,
                                    !.data.inventory.bullets = has.bullets,
                                    !.data.inventory.medicine = has.medicine]), ev))
  /\ twin = CtorGame

\* the buttons of the modal that are not disabled: the choices of the stage
\* shown whose requirements are met
EnabledChoices(g) ==
  {k \in 1 .. Len(RawChoices(FindStage(g.session))) :
     ~MissingRequirements(RawChoices(FindStage(g.session))[k], g)}

\* a click on a button of the modal that is not disabled: choose, then the
\* modal closes when done and shows the stage again otherwise
ClickChoice ==
  /\ session.open
  /\ calls < MaxModalOps
  /\ \E k \in EnabledChoices(Game) :
       Becomes(ChooseBody(Game, RawChoices(FindStage(session))[k].id))
  /\ calls' = calls + 1
  /\ UNCHANGED <<insts, outs, seed0, loader, hunt, twin>>

ModalNext == ClickChoice

SpecModal == ModalInit /\ [][ModalNext]_vars

\* the stage shown has a button that can be clicked
SomeChoiceEnabled == session.open => EnabledChoices(Game) # {}

\* the session is over once the player has clicked as often as the longest
\* way through an event of the catalog takes
DoneInTime == calls = MaxModalOps => ~session.open

\* C38: an event session can always be driven to completion: every stage
\* renderStage presents has an enabled choice, and choosing enabled choices
\* reaches done:true after finitely many choices, also when a goto names a
\* stage that does not exist
C38_SessionCompletes == SomeChoiceEnabled /\ DoneInTime

\* the events whose every stage has a choice without requirements and whose
\* gotos that name no stage are on choices that cost what they require
EndingEvents == {k \in 1 .. Len(EVENTS) : EVENTS[k].id \notin {"toll_gate", "lost_trail"}}

\* on those events the modal always has a button to click and the session
\* ends in time
EndingEventsComplete ==
  (session.open /\ session.event \in EndingEvents)
    => EnabledChoices(Game) # {} /\ calls < MaxModalOps

\* a stage without choices is left by Continue
ContinuedToEnd ==
  /\ last.op = "choose" /\ last.choice = "continue" /\ last.done
  /\ ~session.open

\* the toll gate with no money: its only button is disabled
StuckAtGate ==
  /\ session.open /\ EVENTS[session.event].id = "toll_gate"
  /\ EnabledChoices(Game) = {}

\* the lost trail: the goto of its only choice names no stage, and every
\* click shows the first stage again
StillWandering ==
  /\ session.open /\ EVENTS[session.event].id = "lost_trail"
  /\ calls = MaxModalOps
  /\ data.day = 1 + MaxModalOps

\* ------------------------------------------------------------------------
\* The weighted picks of weather.js, status.js and eventEngine.js
\* ------------------------------------------------------------------------
\* how many picks one run makes
MaxPickCalls == 2

\* the weights an item may be authored with
AuthoredWeights == {-2, 0, 1, 3}

\* the lists of weights picked from: one to three items
WeightLists ==
  UNION {[1 .. n -> AuthoredWeights] : n \in 1 .. 3}

\* generator states before the pick: 0x92D4860B, from which next() returns
\* 0, 0x85EBF8FB, from which it returns 1 / 2^32, and two others
PickSeeds == { Word(37588, 34315), Word(34283, 63739), Word(0, 42), Word(0, 7) }

PickInit ==
  /\ seed0 \in PickSeeds
  /\ insts = [i \in {"a", "b"} |-> RNGCtor(seed0)]
  /\ outs = [i \in {"a", "b"} |-> NoOut]
  /\ calls = 0
  /\ Offstage
  /\ \E ws \in WeightLists :
       IsGame([CtorGame EXCEPT !.rng = RNGCtor(seed0), !.last = [op |-> "items", ws |-> ws]])
  /\ twin = CtorGame

\* the weight each implementation gives an item of authored weight w:
\* weight || 0 in weather.js, Math.max(0, weight || 0) in status.js,
\* Math.max(0, Number(weight || 1)) in eventEngine.js
Effective(of, w) ==
  CASE of = "weather" -> w
    [] of = "status" -> Max(0, w)
    [] of = "event" -> EventWeight([weight |-> w])

Weighed(of, ws) == [i \in 1 .. Len(ws) |-> Effective(of, ws[i])]

PickClient(g) ==
  /\ calls < MaxPickCalls
  /\ Becomes(g)
  /\ calls' = calls + 1
  /\ UNCHANGED <<insts, outs, seed0, loader, hunt, twin>>

\* weightedPick(rng, items) of weather.js, on items of weight 0 or more
PickPattern ==
  /\ \A i \in 1 .. Len(last.ws) : last.ws[i] >= 0
  /\ \E d \in {Draw(Game)} :
       PickClient([d.g EXCEPT !.last =
                     [op |-> "weightedPick", of |-> "weather", ws |-> last.ws,
                      ret |-> PickIndex(Weighed("weather", last.ws), d.u),
                      rngBefore |-> rng]])

\* weightedPick(rng, items) of status.js: null, and no draw, when no item
\* has a weight above 0
PickCondition ==
  \E d \in {Draw(Game)} :
    PickClient(IF SumWeights(Weighed("status", last.ws), 1) <= 0
               THEN [Game EXCEPT !.last =
                       [op |-> "weightedPick", of |-> "status", ws |-> last.ws,
                        ret |-> 0, rngBefore |-> rng]]
               ELSE [d.g EXCEPT !.last =
                       [op |-> "weightedPick", of |-> "status", ws |-> last.ws,
                        ret |-> PickIndex(Weighed("status", last.ws), d.u),
                        rngBefore |-> rng]])

\* weightedPick(game, arr, weightFn) of eventEngine.js, for events and for
\* the options of a roll
PickEvent ==
  \E p \in {EventPick(Game, Weighed("event", last.ws))} :
    PickClient([p.g EXCEPT !.last =
                  [op |-> "weightedPick", of |-> "event", ws |-> last.ws,
                   ret |-> p.i, rngBefore |-> rng]])

PickNext == PickPattern \/ PickCondition \/ PickEvent

SpecPick == PickInit /\ [][PickNext]_vars

\* the sum of the first i weights
RECURSIVE Cumulative(_, _)
Cumulative(ws, i) == IF i = 0 THEN 0 ELSE ws[i] + Cumulative(ws, i - 1)

\* the weights of the items of the last pick, as its implementation reads
\* them
LastWeights == Weighed(last.of, last.ws)

\* the last call was a weighted pick among items of which one at least has
\* a weight above 0
PickedAmongSome ==
  /\ last.op = "weightedPick"
  /\ \E i \in 1 .. Len(LastWeights) : LastWeights[i] > 0

\* the draw of the last pick, as a numerator over 2^32
LastDraw == RNGOutput(RNGAdvance(last.rngBefore))

\* the cumulative weight up to item i reaches draw x total
Reaches(i) ==
  DrawScaledLe(LastDraw, Cumulative(LastWeights, Len(LastWeights)), Cumulative(LastWeights, i))

OneDraw == PickedAmongSome => rng = RNGAdvance(last.rngBefore)

FirstToReach ==
  PickedAmongSome
    => /\ last.ret \in 1 .. Len(LastWeights)
       /\ Reaches(last.ret)
       /\ \A j \in 1 .. (last.ret - 1) : ~Reaches(j)

NoZeroWeightPicked == PickedAmongSome => LastWeights[last.ret] > 0

\* C39: each weighted pick consumes exactly one RNG draw and returns the
\* first item whose cumulative weight reaches draw x total weight; for every
\* draw in [0, 1), 0 included, an item of effective weight 0 is never
\* returned while another item has a weight above 0
C39_WeightedPick == OneDraw /\ FirstToReach /\ NoZeroWeightPicked

\* what holds of the draws above the 1e-9 of eventEngine.js
NoZeroWeightOnLargerDraws ==
  (PickedAmongSome /\ (Hi(LastDraw) > 0 \/ Lo(LastDraw) > 4)) => LastWeights[last.ret] > 0

\* weather.js and status.js return the first item to reach the draw
FirstToReachButEvents == last.op = "weightedPick" /\ last.of # "event" => FirstToReach

\* the draw 0 returned a first item of weight 0 although another item has
\* weight
ZeroDrawPicksZeroWeight(of) ==
  /\ PickedAmongSome /\ last.of = of
  /\ LastDraw = WZero
  /\ last.ret = 1 /\ LastWeights[1] = 0

\* the draw 1 / 2^32 of eventEngine.js returned a first item of weight 0 that
\* the draw had passed
TinyDrawPicksZeroWeight ==
  /\ PickedAmongSome /\ last.of = "event"
  /\ LastDraw = Word(0, 1)
  /\ last.ret = 1 /\ LastWeights[1] = 0 /\ ~Reaches(1)

\* ------------------------------------------------------------------------
\* continueGame over a save that cannot be read
\* ------------------------------------------------------------------------
\* what may lie under SAVE_KEY in place of a saved document
Unreadable == {"missing", "empty", "garbled", "scalar"}

\* the item under SAVE_KEY is removed or overwritten from outside the game
DamageSave ==
  /\ "raw" \notin DOMAIN storage
  /\ \E raw \in Unreadable : storage' = SaveFile(raw)
  /\ UNCHANGED <<rngVars, loader, hunt, rng, data, tasks, cat, session, seen, twin, last>>

\* game.continueGame() on the GameState in use
ContinueCall == ~session.open /\ Client(ContinueGameCall(Game))

SaveNext ==
  \/ TravelDay \/ RestDay \/ RunTask \/ LoadWeather \/ LoadStatus
  \/ SaveGame \/ DamageSave \/ ContinueCall

SpecSave == Init /\ [][SaveNext]_vars

\* the last call was continueGame with no saved document under SAVE_KEY
ContinuedOverNoSave ==
  /\ last.op = "continueGame"
  /\ "was" \in DOMAIN last /\ "storageBefore" \in DOMAIN last
  /\ "raw" \in DOMAIN last.storageBefore

ThrewOver(raw) == ContinuedOverNoSave /\ last.storageBefore = SaveFile(raw) /\ last.threw

\* continueGame read a saved document
ContinuedFromSave ==
  /\ last.op = "continueGame" /\ "storageBefore" \in DOMAIN last
  /\ ~last.threw /\ data = last.storageBefore

\* ------------------------------------------------------------------------
\* Specification of the RNG alone: two instances built from one seed and
\* driven by the same calls (tests/run.js, testRNGDeterminism)
\* ------------------------------------------------------------------------
RInit ==
  /\ seed0 \in Seeds
  /\ insts = [i \in {"a", "b"} |-> RNGCtor(seed0)]
  /\ outs = [i \in {"a", "b"} |-> NoOut]
  /\ calls = 0
  /\ Offstage
  /\ GameIdle

\* a.next(); b.next()
BothNext ==
  /\ calls < MaxCalls
  /\ LET ra == RNG_next(insts, "a")
         rb == RNG_next(ra.h, "b")
     IN  /\ insts' = rb.h
         /\ outs' = [a |-> [kind |-> "float", v |-> ra.v],
                     b |-> [kind |-> "float", v |-> rb.v]]
  /\ calls' = calls + 1
  /\ UNCHANGED <<seed0, loader, hunt, gameVars>>

\* a.nextInt(max); b.nextInt(max)
BothNextInt ==
  /\ calls < MaxCalls
  /\ \E max \in IntMaxes :
       LET ra == RNG_nextInt(insts, "a", max)
           rb == RNG_nextInt(ra.h, "b", max)
       IN  /\ insts' = rb.h
           /\ outs' = [a |-> [kind |-> "int", v |-> ra.v, max |-> max],
                       b |-> [kind |-> "int", v |-> rb.v, max |-> max]]
  /\ calls' = calls + 1
  /\ UNCHANGED <<seed0, loader, hunt, gameVars>>

RNext == BothNext \/ BothNextInt

SpecRNG == RInit /\ [][RNext]_vars

\* n * 0x6D2B79F5 mod 2^32
RECURSIVE TimesGolden(_)
TimesGolden(n) == IF n = 0 THEN WZero ELSE WAdd(TimesGolden(n - 1), Golden)

\* C1: two RNG instances constructed with the same seed return identical
\* values for every call of the same sequence of next()/nextInt(max) calls and
\* hold identical state after each call (the state being the constructed one
\* advanced once per call, whatever calls were made).
C1_RNGDeterminism ==
  /\ insts["a"] = insts["b"]
  /\ outs["a"] = outs["b"]
  /\ insts["a"] = WAdd(RNGCtor(seed0), TimesGolden(calls))
  /\ outs["a"].kind = "int" => outs["a"].v \in 0 .. (outs["a"].max - 1)

\* C1 witness: both instances have answered several calls, the last a
\* nextInt(6), and the state has moved off the seed
C1_Witness ==
  /\ calls >= 3
  /\ outs["a"].kind = "int" /\ outs["a"].max = 6
  /\ outs["b"].kind = "int"
  /\ insts["a"] # RNGCtor(seed0)

====
